---- MODULE Spec2Model ----
(***************************************************************************)
(* A model of the mini-redis server: the Store (entries, expiration index, *)
(* pub/sub broadcasters), the Db handle with its background expirer, the   *)
(* per-connection Handler in normal and in subscriber mode, and the        *)
(* server's shutdown sequence.                                             *)
(***************************************************************************)
EXTENDS Integers, Sequences, FiniteSets, TLC

\* ------------------------------------------------------------------ bounds
MaxTime == 1
MaxId == 2
MaxPos == 2
ChannelCapacity == 1
\* The permits of the connection semaphore, fewer than in the program.
MAX_CONNECTIONS == 3
\* The calls that the client of the observed connection makes.
MaxCalls == 3

\* The last backoff after which Listener::accept sleeps.
MaxBackoff == 64

\* The clients, more of them than permits.
Conns == {"c1", "c2", "c3", "c4", "c5"}
\* The connection whose requests and frames are recorded; the others are its peers.
Observed == "c1"
Keys == {"k1", "k2"}
Values == {"v1", "v2"}
Channels == {"a", "b"}
Messages == {"m1", "m2"}
Durations == {0, 1}

\* Option<T>: None is the empty tuple, Some(x) the one-element tuple.
None == <<>>
Some(x) == <<x>>

\* ------------------------------------------------------------------ frames
Simple(s) == [type |-> "Simple", val |-> s]
Bulk(b) == [type |-> "Bulk", val |-> b]
Error(s) == [type |-> "Error", val |-> s]
Integer(n) == [type |-> "Integer", val |-> n]
Null == [type |-> "Null", val |-> None]
Array(fs) == [type |-> "Array", val |-> fs]

VARIABLES
    store,            \* Store: entries, pub_sub, expirations, next_id, shutdown
    background_task,  \* SharedDb.background_task: TRUE iff the Notify holds a permit
    now,              \* the clock read by Instant::now()
    purge_task,       \* the expirer task Db::purge_expired_tasks
    handlers,         \* per connection: the Handler task and its subscriber state
    server,           \* server::run: running, shutdown, dropping, returned
    last,             \* the observed connection's latest request and the frames in answer,
                      \* or Overwritten once another connection has written its key
    prev,             \* the request it sent before that one
    msgs,             \* per channel: the message frames written to it
    published,        \* per channel: the payloads the broadcaster accepted, by position
    acked,            \* per channel: the latest acknowledgment written to it
    owed,             \* messages published to its acknowledged subscriptions, still due
    listener,         \* Listener::run and accept, the semaphore, the completion senders
    conn,             \* a Connection read frame by frame: its socket and its buffer
    client,           \* the Client or Subscriber at the peer end of the observed connection
    mutex             \* SharedDb.store's Mutex: None, or Some(i) while Handler i holds the guard

vars == <<store, background_task, now, purge_task, handlers, server,
          last, prev, msgs, published, acked, owed, listener, conn, client, mutex>>

\* ------------------------------------------------------------------- Store
\* Store::new
StoreNew ==
    [entries |-> <<>>,
     pub_sub |-> [c \in Channels |-> None],
     expirations |-> {},
     next_id |-> 0,
     shutdown |-> FALSE]

\* The (Instant, u64) order of the BTreeMap keys.
KeyLess(a, b) == a.when < b.when \/ (a.when = b.when /\ a.id < b.id)

\* BTreeMap::first_key_value
First(exps) == CHOOSE e \in exps : \A f \in exps : f = e \/ KeyLess(e, f)

\* BTreeMap::insert: an element with the same (when, id) is replaced.
ExpInsert(exps, when, id, key) ==
    {e \in exps : ~(e.when = when /\ e.id = id)}
        \cup {[when |-> when, id |-> id, key |-> key]}

\* BTreeMap::remove
ExpRemove(exps, when, id) == {e \in exps : ~(e.when = when /\ e.id = id)}

\* HashMap::remove on entries
EntriesRemove(entries, key) ==
    [k \in (DOMAIN entries) \ {key} |-> entries[k]]

\* HashMap::insert on entries
EntriesInsert(entries, key, entry) ==
    [k \in (DOMAIN entries) \cup {key} |-> IF k = key THEN entry ELSE entries[k]]

\* Store::next_expiration
NextExpiration(s) ==
    IF s.expirations = {} THEN None ELSE Some(First(s.expirations).when)

\* Mutant of StoreGet: an entry whose deadline has passed is not returned.
StoreGetChecksDeadline(s, key) ==
    IF key \in DOMAIN s.entries
       /\ (s.entries[key].expires_at = None \/ s.entries[key].expires_at[1] > now)
    THEN Some(s.entries[key].data) ELSE None

\* Store::get
StoreGet(s, key) ==
    IF key \in DOMAIN s.entries THEN Some(s.entries[key].data) ELSE None

\* Mutant of StoreSet: a key that is present keeps its entry.
StoreSetKeepsOldEntry(s, key, value, expire, tnow) ==
    IF key \in DOMAIN s.entries
    THEN [store |-> [s EXCEPT !.next_id = s.next_id + 1], notify |-> FALSE]
    ELSE LET id == s.next_id
             when == IF expire = None THEN None ELSE Some(tnow + expire[1])
             notify == IF expire = None THEN FALSE
                       ELSE IF NextExpiration(s) = None THEN TRUE
                       ELSE NextExpiration(s)[1] > when[1]
         IN  [store |-> [s EXCEPT
                  !.next_id = id + 1,
                  !.expirations = IF expire = None THEN s.expirations
                                  ELSE ExpInsert(s.expirations, when[1], id, key),
                  !.entries = EntriesInsert(s.entries, key,
                                  [id |-> id, data |-> value, expires_at |-> when])],
              notify |-> notify]

\* Mutant of StoreSet: the overwritten entry's deadline stays in the index.
StoreSetKeepsOldDeadline(s, key, value, expire, tnow) ==
    LET id == s.next_id
        when == IF expire = None THEN None ELSE Some(tnow + expire[1])
        notify == IF expire = None THEN FALSE
                  ELSE IF NextExpiration(s) = None THEN TRUE
                  ELSE NextExpiration(s)[1] > when[1]
        exp1 == IF expire = None THEN s.expirations
                ELSE ExpInsert(s.expirations, when[1], id, key)
    IN  [store |-> [s EXCEPT !.next_id = id + 1,
                             !.expirations = exp1,
                             !.entries = EntriesInsert(s.entries, key,
                                 [id |-> id, data |-> value, expires_at |-> when])],
         notify |-> notify]

\* Mutant of StoreSet: notify only when the expiration index was empty.
StoreSetNotifiesWhenEmpty(s, key, value, expire, tnow) ==
    LET id == s.next_id
        when == IF expire = None THEN None ELSE Some(tnow + expire[1])
        exp1 == IF expire = None THEN s.expirations
                ELSE ExpInsert(s.expirations, when[1], id, key)
        prevEntry == IF key \in DOMAIN s.entries THEN Some(s.entries[key]) ELSE None
        exp2 == IF prevEntry # None /\ prevEntry[1].expires_at # None
                THEN ExpRemove(exp1, prevEntry[1].expires_at[1], prevEntry[1].id)
                ELSE exp1
    IN  [store |-> [s EXCEPT !.next_id = id + 1,
                             !.expirations = exp2,
                             !.entries = EntriesInsert(s.entries, key,
                                 [id |-> id, data |-> value, expires_at |-> when])],
         notify |-> expire # None /\ s.expirations = {}]

\* Mutant of StoreSet: notify is judged after the old deadline of the key is removed.
StoreSetNotifiesAfterRemoval(s, key, value, expire, tnow) ==
    LET id == s.next_id
        when == IF expire = None THEN None ELSE Some(tnow + expire[1])
        prevEntry == IF key \in DOMAIN s.entries THEN Some(s.entries[key]) ELSE None
        exp0 == IF prevEntry # None /\ prevEntry[1].expires_at # None
                THEN ExpRemove(s.expirations, prevEntry[1].expires_at[1], prevEntry[1].id)
                ELSE s.expirations
        notify == IF expire = None THEN FALSE
                  ELSE \A e \in exp0 : e.when > when[1]
        exp1 == IF expire = None THEN exp0 ELSE ExpInsert(exp0, when[1], id, key)
    IN  [store |-> [s EXCEPT !.next_id = id + 1,
                             !.expirations = exp1,
                             !.entries = EntriesInsert(s.entries, key,
                                 [id |-> id, data |-> value, expires_at |-> when])],
         notify |-> notify]

\* Mutant of StoreSet: half of a SET. A key that is present gets the new id and
\* the new deadline and keeps its old value.
StoreSetKeepsOldValue(s, key, value, expire, tnow) ==
    LET id == s.next_id
        when == IF expire = None THEN None ELSE Some(tnow + expire[1])
        notify == IF expire = None THEN FALSE
                  ELSE IF NextExpiration(s) = None THEN TRUE
                  ELSE NextExpiration(s)[1] > when[1]
        exp1 == IF expire = None THEN s.expirations
                ELSE ExpInsert(s.expirations, when[1], id, key)
        prevEntry == IF key \in DOMAIN s.entries THEN Some(s.entries[key]) ELSE None
        exp2 == IF prevEntry # None /\ prevEntry[1].expires_at # None
                THEN ExpRemove(exp1, prevEntry[1].expires_at[1], prevEntry[1].id)
                ELSE exp1
    IN  [store |-> [s EXCEPT !.next_id = id + 1,
                             !.expirations = exp2,
                             !.entries = EntriesInsert(s.entries, key,
                                 [id |-> id,
                                  data |-> IF prevEntry # None THEN prevEntry[1].data ELSE value,
                                  expires_at |-> when])],
         notify |-> notify]

\* Store::set
StoreSet(s, key, value, expire, tnow) ==
    LET id == s.next_id
        when == IF expire = None THEN None ELSE Some(tnow + expire[1])
        notify == IF expire = None THEN FALSE
                  ELSE IF NextExpiration(s) = None THEN TRUE
                  ELSE NextExpiration(s)[1] > when[1]
        exp1 == IF expire = None THEN s.expirations
                ELSE ExpInsert(s.expirations, when[1], id, key)
        prevEntry == IF key \in DOMAIN s.entries THEN Some(s.entries[key]) ELSE None
        exp2 == IF prevEntry # None /\ prevEntry[1].expires_at # None
                THEN ExpRemove(exp1, prevEntry[1].expires_at[1], prevEntry[1].id)
                ELSE exp1
    IN  [store |-> [s EXCEPT !.next_id = id + 1,
                             !.expirations = exp2,
                             !.entries = EntriesInsert(s.entries, key,
                                 [id |-> id, data |-> value, expires_at |-> when])],
         notify |-> notify]

\* Mutant of StoreDel: reports the removal but leaves the entry in place.
StoreDelKeepsEntry(s, key) ==
    [store |-> s, count |-> IF key \in DOMAIN s.entries THEN 1 ELSE 0]

\* Mutant of StoreDel: removes the entry and leaves its element in expirations.
StoreDelKeepsIndex(s, key) ==
    IF key \in DOMAIN s.entries
    THEN [store |-> [s EXCEPT !.entries = EntriesRemove(s.entries, key)], count |-> 1]
    ELSE [store |-> s, count |-> 0]

\* Store::del
StoreDel(s, key) ==
    IF key \in DOMAIN s.entries
    THEN LET entry == s.entries[key]
         IN  [store |-> [s EXCEPT
                  !.entries = EntriesRemove(s.entries, key),
                  !.expirations = IF entry.expires_at # None
                                  THEN ExpRemove(s.expirations, entry.expires_at[1], entry.id)
                                  ELSE s.expirations],
              count |-> 1]
    ELSE [store |-> s, count |-> 0]

\* The while-let loop of Store::purge_expired_keys.
RECURSIVE PurgeLoop(_, _)
PurgeLoop(s, tnow) ==
    IF s.expirations = {} THEN [store |-> s, next |-> None]
    ELSE LET e == First(s.expirations)
         IN  IF e.when > tnow THEN [store |-> s, next |-> Some(e.when)]
             ELSE PurgeLoop([s EXCEPT
                      !.entries = EntriesRemove(s.entries, e.key),
                      !.expirations = ExpRemove(s.expirations, e.when, e.id)], tnow)

\* Mutant of StorePurgeExpiredKeys: reports the next deadline, removes nothing.
StorePurgeRemovesNothing(s, tnow) ==
    IF s.shutdown THEN [store |-> s, next |-> None]
    ELSE [store |-> s, next |-> NextExpiration(s)]

\* Mutant of StorePurgeExpiredKeys: the shutdown flag is not looked at.
StorePurgeIgnoresShutdown(s, tnow) == PurgeLoop(s, tnow)

\* Store::purge_expired_keys
StorePurgeExpiredKeys(s, tnow) ==
    IF s.shutdown THEN [store |-> s, next |-> None] ELSE PurgeLoop(s, tnow)

\* ------------------------------------------------- broadcast channels
\* broadcast::channel(capacity): the sender's shared state and the first receiver.
BroadcastChannel == [pos |-> 0, buf |-> <<>>, rx_cnt |-> 1]

\* The last n elements of a sequence.
LastN(q, n) == IF Len(q) <= n THEN q ELSE SubSeq(q, Len(q) - n + 1, Len(q))

\* Mutant of BroadcastSend: a full buffer keeps its messages and drops the new one.
BroadcastSendKeepsOldest(ch, value) ==
    IF ch.rx_cnt = 0 THEN [chan |-> ch, count |-> 0]
    ELSE [chan |-> [ch EXCEPT !.pos = ch.pos + 1,
                              !.buf = IF Len(ch.buf) < ChannelCapacity
                                      THEN Append(ch.buf, value) ELSE ch.buf],
          count |-> ch.rx_cnt]

\* broadcast::Sender::send: Err (count 0) without receivers, else the receiver count.
BroadcastSend(ch, value) ==
    IF ch.rx_cnt = 0 THEN [chan |-> ch, count |-> 0]
    ELSE [chan |-> [ch EXCEPT !.pos = ch.pos + 1,
                              !.buf = LastN(Append(ch.buf, value), ChannelCapacity)],
          count |-> ch.rx_cnt]

\* Position of the oldest message the channel still retains.
Oldest(ch) == ch.pos - Len(ch.buf)

\* Mutant of StreamPoll: the receiver's cursor is not advanced past the message.
StreamPollKeepsCursor(ch, next) ==
    IF next = ch.pos THEN None
    ELSE LET from == IF next < ch.pos - Len(ch.buf) THEN ch.pos - Len(ch.buf) ELSE next
         IN  Some([msg |-> ch.buf[from - (ch.pos - Len(ch.buf)) + 1], pos |-> from,
                   next |-> from, lagged |-> next < ch.pos - Len(ch.buf)])

\* Mutant of StreamPoll: a lagging receiver is handed the oldest retained message
\* and its cursor moves on by one only, the skipped positions are not passed over.
StreamPollNoSkip(ch, next) ==
    IF next = ch.pos THEN None
    ELSE LET from == IF next < ch.pos - Len(ch.buf) THEN ch.pos - Len(ch.buf) ELSE next
         IN  Some([msg |-> ch.buf[from - (ch.pos - Len(ch.buf)) + 1], pos |-> from,
                   next |-> next + 1, lagged |-> next < ch.pos - Len(ch.buf)])

\* The stream built in subscribe_to_channel, polled once: a Lagged error moves the
\* receiver to the oldest retained message and the loop receives again.
StreamPoll(ch, next) ==
    IF next = ch.pos THEN None
    ELSE LET from == IF next < Oldest(ch) THEN Oldest(ch) ELSE next
         IN  Some([msg |-> ch.buf[from - Oldest(ch) + 1], pos |-> from,
                   next |-> from + 1, lagged |-> next < Oldest(ch)])

\* Store::subscribe: a receiver of the channel's broadcaster, created if absent.
StoreSubscribe(s, key) ==
    IF s.pub_sub[key] = None
    THEN [store |-> [s EXCEPT !.pub_sub[key] = Some(BroadcastChannel)], rx |-> 0]
    ELSE LET ch == s.pub_sub[key][1]
         IN  [store |-> [s EXCEPT !.pub_sub[key] = Some([ch EXCEPT !.rx_cnt = ch.rx_cnt + 1])],
              rx |-> ch.pos]

\* Mutant of StorePublish: counts the broadcasters instead of the receivers.
StorePublishCountsSenders(s, key, value) ==
    IF s.pub_sub[key] = None THEN [store |-> s, count |-> 0]
    ELSE LET r == BroadcastSend(s.pub_sub[key][1], value)
         IN  [store |-> [s EXCEPT !.pub_sub[key] = Some(r.chan)], count |-> 1]

\* Store::publish
StorePublish(s, key, value) ==
    IF s.pub_sub[key] = None THEN [store |-> s, count |-> 0]
    ELSE LET r == BroadcastSend(s.pub_sub[key][1], value)
         IN  [store |-> [s EXCEPT !.pub_sub[key] = Some(r.chan)], count |-> r.count]

\* Mutant of DropReceiver: the channel's broadcaster goes with the receiver.
DropReceiverClosesChannel(s, key) == [s EXCEPT !.pub_sub[key] = None]

\* Drop of a broadcast::Receiver of channel key.
DropReceiver(s, key) ==
    LET ch == s.pub_sub[key][1]
    IN  [s EXCEPT !.pub_sub[key] = Some([ch EXCEPT !.rx_cnt = ch.rx_cnt - 1])]

\* Drop of every receiver of a StreamMap.
RECURSIVE DropAll(_, _)
DropAll(s, subs) ==
    IF subs = <<>> THEN s ELSE DropAll(DropReceiver(s, Head(subs).name), Tail(subs))

\* ------------------------------------------------------------- StreamMap
\* Mutant of SubKeys: only the first key is listed.
SubKeysFirstOnly(subs) == IF subs = <<>> THEN <<>> ELSE <<subs[1].name>>

\* StreamMap::keys
SubKeys(subs) == [n \in 1..Len(subs) |-> subs[n].name]

Subscribed(subs) == {subs[n].name : n \in 1..Len(subs)}

\* Index of the entry of a key.
IndexOf(subs, name) == CHOOSE n \in 1..Len(subs) : subs[n].name = name

\* Vec::swap_remove: the last entry takes the place of the removed one.
SwapRemove(subs, n) ==
    [m \in 1..(Len(subs) - 1) |-> IF m = n THEN subs[Len(subs)] ELSE subs[m]]

\* StreamMap::remove
StreamMapRemove(subs, name) ==
    IF name \in Subscribed(subs) THEN SwapRemove(subs, IndexOf(subs, name)) ELSE subs

\* StreamMap::insert: the entry of an equal key is removed first.
StreamMapInsert(subs, name, rx) ==
    Append(StreamMapRemove(subs, name), [name |-> name, next |-> rx])

\* ------------------------------------------------------- reply frames
\* make_subscribe_frame
make_subscribe_frame(channel_name, num_subs) ==
    Array(<<Bulk("subscribe"), Bulk(channel_name), Integer(num_subs)>>)

\* make_unsubscribe_frame
make_unsubscribe_frame(channel_name, num_subs) ==
    Array(<<Bulk("unsubscribe"), Bulk(channel_name), Integer(num_subs)>>)

\* make_message_frame
make_message_frame(channel_name, msg) ==
    Array(<<Bulk("message"), Bulk(channel_name), Bulk(msg)>>)

\* Mutant of SubscribeToChannel: the count is the server-wide receiver count.
SubscribeToChannelCountsAll(s, subs, channel_name) ==
    LET r == StoreSubscribe(s, channel_name)
        subs1 == StreamMapInsert(subs, channel_name, r.rx)
        s1 == IF channel_name \in Subscribed(subs)
              THEN DropReceiver(r.store, channel_name) ELSE r.store
    IN  [store |-> s1, subscriptions |-> subs1,
         frame |-> make_subscribe_frame(channel_name, s1.pub_sub[channel_name][1].rx_cnt)]

\* Subscribe::subscribe_to_channel: the new receiver replaces (and drops) the
\* stream the map held for the channel; the acknowledgment carries the map's size.
SubscribeToChannel(s, subs, channel_name) ==
    LET r == StoreSubscribe(s, channel_name)
        subs1 == StreamMapInsert(subs, channel_name, r.rx)
        s1 == IF channel_name \in Subscribed(subs)
              THEN DropReceiver(r.store, channel_name) ELSE r.store
    IN  [store |-> s1, subscriptions |-> subs1,
         frame |-> make_subscribe_frame(channel_name, Len(subs1))]

\* Mutant of UnsubscribeChannel: acknowledges but keeps the stream.
UnsubscribeChannelKeepsStream(s, subs, channel_name) ==
    [store |-> s, subscriptions |-> subs,
     frame |-> make_unsubscribe_frame(channel_name,
                  Len(StreamMapRemove(subs, channel_name)))]

\* One round of the for loop of handle_command's Unsubscribe arm.
UnsubscribeChannel(s, subs, channel_name) ==
    LET subs1 == StreamMapRemove(subs, channel_name)
        s1 == IF channel_name \in Subscribed(subs)
              THEN DropReceiver(s, channel_name) ELSE s
    IN  [store |-> s1, subscriptions |-> subs1,
         frame |-> make_unsubscribe_frame(channel_name, Len(subs1))]

\* ------------------------------------------------- requests on the wire
\* A string that the server looks into is a sequence of one-letter strings.
UpperLetters ==
    <<"A", "B", "C", "D", "E", "F", "G", "H", "I", "J", "K", "L", "M",
      "N", "O", "P", "Q", "R", "S", "T", "U", "V", "W", "X", "Y", "Z">>

LowerLetters ==
    <<"a", "b", "c", "d", "e", "f", "g", "h", "i", "j", "k", "l", "m",
      "n", "o", "p", "q", "r", "s", "t", "u", "v", "w", "x", "y", "z">>

\* The place of a letter in an alphabet, 0 when it is not one of its letters.
LetterIndex(alphabet, c) ==
    IF \E n \in 1..Len(alphabet) : alphabet[n] = c
    THEN CHOOSE n \in 1..Len(alphabet) : alphabet[n] = c
    ELSE 0




\* str::to_lowercase
ToLowercase(cs) ==
    [n \in 1..Len(cs) |->
        IF LetterIndex(UpperLetters, cs[n]) # 0
        THEN LowerLetters[LetterIndex(UpperLetters, cs[n])] ELSE cs[n]]

\* str::to_uppercase
ToUppercase(cs) ==
    [n \in 1..Len(cs) |->
        IF LetterIndex(LowerLetters, cs[n]) # 0
        THEN UpperLetters[LetterIndex(LowerLetters, cs[n])] ELSE cs[n]]

\* The letters joined into one string.
RECURSIVE Str(_)
Str(cs) == IF cs = <<>> THEN "" ELSE Head(cs) \o Str(Tail(cs))

\* Result<T, MiniRedisParseError>
Ok(v) == [ok |-> TRUE, val |-> v]
Err(e) == [ok |-> FALSE, val |-> e]

\* Parse::new: the parts of an Array frame.
ParseNew(frame) == IF frame.type = "Array" THEN Ok(frame.val) ELSE Err("Parse")

\* Parse::next
ParseNext(parts) == IF parts = <<>> THEN Err("EndOfStream") ELSE Ok(Head(parts))

\* Parse::next_string
NextString(parts) ==
    LET r == ParseNext(parts)
    IN  IF ~r.ok THEN r
        ELSE IF r.val.type \in {"Simple", "Bulk"} THEN Ok(r.val.val)
        ELSE Err("Parse")

\* Parse::next_bytes
NextBytes(parts) ==
    LET r == ParseNext(parts)
    IN  IF ~r.ok THEN r
        ELSE IF r.val.type \in {"Simple", "Bulk"} THEN Ok(r.val.val)
        ELSE Err("Parse")

DecimalDigits == <<"0", "1", "2", "3", "4", "5", "6", "7", "8", "9">>

\* atoi::atoi on a string of decimal digits.
RECURSIVE AtoiLoop(_, _)
AtoiLoop(cs, acc) ==
    IF cs = <<>> \/ LetterIndex(DecimalDigits, Head(cs)) = 0 THEN acc
    ELSE AtoiLoop(Tail(cs), 10 * acc + LetterIndex(DecimalDigits, Head(cs)) - 1)

Atoi(cs) ==
    IF cs = <<>> \/ LetterIndex(DecimalDigits, Head(cs)) = 0 THEN None
    ELSE Some(AtoiLoop(cs, 0))

\* Parse::next_int
NextInt(parts) ==
    LET r == ParseNext(parts)
    IN  IF ~r.ok THEN r
        ELSE IF r.val.type = "Integer" THEN Ok(r.val.val)
        ELSE IF r.val.type \in {"Simple", "Bulk"}
        THEN (IF Atoi(r.val.val) = None THEN Err("Parse") ELSE Ok(Atoi(r.val.val)[1]))
        ELSE Err("Parse")

\* Mutant of Parse::finish: fields that are left over are not an error.
ParseFinishIgnoresRest(parts) == Ok(<<>>)

\* Parse::finish
ParseFinish(parts) == IF parts = <<>> THEN Ok(<<>>) ELSE Err("Parse")

\* A parsed command and the parts of the frame that are left.
Parsed(cmd, rest) == Ok([cmd |-> cmd, rest |-> rest])

\* Get::parse_frame
GetParseFrame(parts) ==
    LET key == NextString(parts)
    IN  IF ~key.ok THEN key
        ELSE Parsed([type |-> "Get", key |-> key.val], Tail(parts))

\* Del::parse_frame
DelParseFrame(parts) ==
    LET key == NextString(parts)
    IN  IF ~key.ok THEN key
        ELSE Parsed([type |-> "Del", key |-> key.val], Tail(parts))

\* Ping::parse_frame
PingParseFrame(parts) ==
    LET msg == NextString(parts)
    IN  IF msg.ok THEN Parsed([type |-> "Ping", msg |-> Some(msg.val)], Tail(parts))
        ELSE IF msg.val = "EndOfStream" THEN Parsed([type |-> "Ping", msg |-> None], parts)
        ELSE msg

\* Publish::parse_frame
PublishParseFrame(parts) ==
    LET channel == NextString(parts)
    IN  IF ~channel.ok THEN channel
        ELSE LET message == NextBytes(Tail(parts))
             IN  IF ~message.ok THEN message
                 ELSE Parsed([type |-> "Publish", channel |-> channel.val,
                              message |-> message.val], Tail(Tail(parts)))

\* Duration::from_secs and Duration::from_millis, in ticks of the clock (1 ms).
DurationFromSecs(n) == 1000 * n
DurationFromMillis(n) == n

\* Set::parse_frame
SetParseFrame(parts) ==
    LET key == NextString(parts)
    IN  IF ~key.ok THEN key
        ELSE LET value == NextBytes(Tail(parts))
                 rest == Tail(Tail(parts))
             IN  IF ~value.ok THEN value
                 ELSE LET opt == NextString(rest)
                          set(e, r) == Parsed([type |-> "Set", key |-> key.val,
                                               value |-> value.val, expire |-> e], r)
                      IN  IF opt.ok
                          THEN LET n == NextInt(Tail(rest))
                               IN  IF Str(ToUppercase(opt.val)) = "EX"
                                   THEN (IF n.ok
                                         THEN set(Some(DurationFromSecs(n.val)), Tail(Tail(rest)))
                                         ELSE n)
                                   ELSE IF Str(ToUppercase(opt.val)) = "PX"
                                   THEN (IF n.ok
                                         THEN set(Some(DurationFromMillis(n.val)), Tail(Tail(rest)))
                                         ELSE n)
                                   ELSE Err("Parse")
                          ELSE IF opt.val = "EndOfStream" THEN set(None, rest)
                          ELSE opt

\* The loop of Subscribe::parse_frame and Unsubscribe::parse_frame: every part
\* that is left must be a string.
RECURSIVE ChannelsLoop(_, _)
ChannelsLoop(parts, channels) ==
    LET s == NextString(parts)
    IN  IF s.ok THEN ChannelsLoop(Tail(parts), Append(channels, s.val))
        ELSE IF s.val = "EndOfStream" THEN Ok(channels)
        ELSE s

\* Subscribe::parse_frame
SubscribeParseFrame(parts) ==
    LET first == NextString(parts)
    IN  IF ~first.ok THEN first
        ELSE LET channels == ChannelsLoop(Tail(parts), <<first.val>>)
             IN  IF ~channels.ok THEN channels
                 ELSE Parsed([type |-> "Subscribe", channels |-> channels.val], <<>>)

\* Unsubscribe::parse_frame
UnsubscribeParseFrame(parts) ==
    LET channels == ChannelsLoop(parts, <<>>)
    IN  IF ~channels.ok THEN channels
        ELSE Parsed([type |-> "Unsubscribe", channels |-> channels.val], <<>>)

\* Command::from_frame
from_frame(frame) ==
    LET parse == ParseNew(frame)
    IN  IF ~parse.ok THEN parse
        ELSE LET name == NextString(parse.val)
             IN  IF ~name.ok THEN name
                 ELSE LET cmd_name == Str(ToLowercase(name.val))
                          parts == Tail(parse.val)
                          cmd == CASE cmd_name = "get" -> GetParseFrame(parts)
                                   [] cmd_name = "ping" -> PingParseFrame(parts)
                                   [] cmd_name = "publish" -> PublishParseFrame(parts)
                                   [] cmd_name = "set" -> SetParseFrame(parts)
                                   [] cmd_name = "subscribe" -> SubscribeParseFrame(parts)
                                   [] cmd_name = "unsubscribe" -> UnsubscribeParseFrame(parts)
                                   [] cmd_name = "del" -> DelParseFrame(parts)
                                   [] OTHER -> Parsed([type |-> "Unknown",
                                                       cmd_name |-> cmd_name], <<>>)
                      IN  IF ~cmd.ok THEN cmd
                          ELSE IF ~ParseFinish(cmd.val.rest).ok THEN ParseFinish(cmd.val.rest)
                          ELSE Ok(cmd.val.cmd)

\* Mutant of get_name: every command is named after its first letter.
get_name_first_letter(cmd) ==
    CASE cmd.type = "Get" -> "g"
      [] cmd.type = "Ping" -> "p"
      [] cmd.type = "Publish" -> "p"
      [] cmd.type = "Set" -> "s"
      [] cmd.type = "Subscribe" -> "s"
      [] cmd.type = "Unsubscribe" -> "u"
      [] cmd.type = "Unknown" -> cmd.cmd_name
      [] cmd.type = "Del" -> "d"

\* Command::get_name
get_name(cmd) ==
    CASE cmd.type = "Get" -> "get"
      [] cmd.type = "Ping" -> "ping"
      [] cmd.type = "Publish" -> "publish"
      [] cmd.type = "Set" -> "set"
      [] cmd.type = "Subscribe" -> "subscribe"
      [] cmd.type = "Unknown" -> cmd.cmd_name
      [] cmd.type = "Unsubscribe" -> "unsubscribe"
      [] cmd.type = "Del" -> "del"

\* Mutant of UnknownResponse: the name is not quoted.
UnknownResponseNoQuotes(cmd_name) == Error("err unknown command " \o cmd_name)

\* The response of Unknown::apply.
UnknownResponse(cmd_name) == Error("err unknown command '" \o cmd_name \o "'")

\* The response of Ping::apply.
PingResponse(msg) == IF msg = None THEN Simple("PONG") ELSE Bulk(msg[1])

\* A request: an Array of Bulk strings.
Cmd(words) == Array([n \in 1..Len(words) |-> Bulk(words[n])])

\* The names that requests start with, and the fields that follow them.
CommandNames ==
    {<<"G", "E", "T">>, <<"S", "e", "t">>, <<"D", "E", "L">>, <<"P", "i", "n", "g">>,
     <<"P", "U", "B", "L", "I", "S", "H">>,
     <<"s", "u", "b", "s", "c", "r", "i", "b", "e">>,
     <<"U", "N", "S", "U", "B", "S", "C", "R", "I", "B", "E">>,
     <<"F", "O", "O">>, <<"f", "o", "o">>}

ArgLists ==
    {<<>>, <<<<"a">>>>, <<<<"b">>>>, <<<<"a">>, <<"b">>>>,
     <<<<"a">>, <<"b">>, <<"a">>>>}

\* SET with an option: PX and a number, a number and one more field, EX or px
\* without a number, PX and a field that is no number, EX and an Integer frame.
SetOptionFrames ==
    {Cmd(<<<<"S", "e", "t">>, <<"a">>, <<"b">>>> \o opt) :
        opt \in {<<<<"P", "X">>, <<"1">>>>, <<<<"p", "x">>, <<"0">>>>,
                 <<<<"P", "X">>, <<"1">>, <<"a">>>>,
                 <<<<"E", "X">>>>, <<<<"p", "x">>>>, <<<<"P", "X">>, <<"a">>>>}}
        \cup {Array(<<Bulk(<<"S", "e", "t">>), Bulk(<<"a">>), Bulk(<<"b">>),
                      Bulk(<<"E", "X">>), Integer(0)>>)}

\* The frames that a client sends: the requests, and frames that are no request.
RequestFrames ==
    {Cmd(<<name>> \o args) : name \in CommandNames, args \in ArgLists}
        \cup SetOptionFrames
        \cup {Simple(<<"a">>), Array(<<Integer(1), Bulk(<<"a">>)>>), Array(<<>>),
              Array(<<Bulk(<<"G", "E", "T">>), Integer(1)>>)}

\* Command::from_frame of every frame that a client sends.
FromFrame == [frame \in RequestFrames |-> from_frame(frame)]

\* The names of a list of channels.
ChannelNames(channels) == [n \in 1..Len(channels) |-> Str(channels[n])]

\* ------------------------------------------------------------ requests
\* Channel lists of SUBSCRIBE and UNSUBSCRIBE requests, up to two names.
ChannelLists == {<<>>} \cup {<<c>> : c \in Channels}
                    \cup {<<c, d>> : c \in Channels, d \in Channels}

NoRequest ==
    [op |-> "none", key |-> "", val |-> "", chans |-> <<>>,
     deadline |-> None, reply |-> <<>>, frame |-> None]

\* What is left of the record once another connection has set or deleted its key.
Overwritten == [NoRequest EXCEPT !.op = "overwritten"]

\* Connections whose subscription map holds the channel.
Subscribers(c) ==
    {j \in Conns : handlers[j].pc = "subscribe" /\ c \in Subscribed(handlers[j].subscriptions)}

\* The record of a request of the observed connection, as it is applied.
Request(i, op, key, val, exp, chans, frames) ==
    [op |-> op, key |-> key, val |-> val, chans |-> chans,
     deadline |-> IF exp = None THEN None ELSE Some(now + exp[1]),
     reply |-> frames, frame |-> None]

\* The record of a request that is told by its frame.
FrameRequest(op, frame, frames) ==
    [NoRequest EXCEPT !.op = op, !.frame = Some(frame), !.reply = frames]

\* Connection i starts a new request; wrote is the set of keys it sets or deletes.
Begin(i, rec, wrote) ==
    IF i = Observed
    THEN /\ prev' = [op |-> last.op, key |-> last.key, ttl |-> last.deadline # None]
         /\ last' = rec
    ELSE /\ last' = IF last.key \in wrote THEN Overwritten ELSE last
         /\ prev' = prev

\* One more frame written in answer to the request of connection i.
Reply(i, frame) ==
    /\ last' = IF i = Observed /\ last # Overwritten
               THEN [last EXCEPT !.reply = Append(@, frame)] ELSE last
    /\ prev' = prev

\* Handler i waits in the select of Handler::run.
AtRun(i) == handlers[i].pc = "run"

\* Handler i waits in the select of Subscribe::apply.
AtSelect(i) ==
    /\ handlers[i].pc = "subscribe"
    /\ handlers[i].channels = <<>>
    /\ handlers[i].unsub = <<>>

\* ------------------------------------------------------------- framing
\* Bytes are one-character strings, a buffer is a sequence of them; a position of
\* the Cursor counts the bytes before it.
CRLF == <<"\r", "\n">>

\* A value read from the Cursor and the Cursor's position after it.
At(val, pos) == Ok([val |-> val, pos |-> pos])

get_u8(buf, pos) ==
    IF pos >= Len(buf) THEN Err("Incomplete") ELSE At(buf[pos + 1], pos + 1)

peek_u8(buf, pos) ==
    IF pos >= Len(buf) THEN Err("Incomplete") ELSE At(buf[pos + 1], pos)

skip(buf, pos, n) ==
    IF Len(buf) - pos < n THEN Err("Incomplete") ELSE At(None, pos + n)

\* get_line: the bytes up to the first "\r\n" at or after the position.
get_line(buf, pos) ==
    LET found == {i \in pos..(Len(buf) - 2) : buf[i + 1] = "\r" /\ buf[i + 2] = "\n"}
    IN  IF found = {} THEN Err("Incomplete")
        ELSE LET i == CHOOSE i \in found : \A j \in found : i <= j
             IN  At(SubSeq(buf, pos + 1, i), i + 2)

\* get_decimal: atoi::<u64> on the line.
get_decimal(buf, pos) ==
    LET line == get_line(buf, pos)
    IN  IF ~line.ok THEN line
        ELSE IF Atoi(line.val.val) = None THEN Err("Parse")
        ELSE At(Atoi(line.val.val)[1], line.val.pos)

\* Mutant of BulkSpan: Frame::check does not wait for the two bytes after the payload.
BulkSpanPayloadOnly(len) == len

\* Frame::check: the bytes of a Bulk after its length line, payload and "\r\n".
BulkSpan(len) == len + 2

\* Frame::check
RECURSIVE Frame_check(_, _)
RECURSIVE CheckEntries(_, _, _)
CheckEntries(buf, pos, len) ==
    IF len = 0 THEN At(None, pos)
    ELSE CHOOSE rest \in {IF ~r.ok THEN r ELSE CheckEntries(buf, r.val.pos, len - 1) :
                             r \in {Frame_check(buf, pos)}} : TRUE

Frame_check(buf, pos) ==
    LET b == get_u8(buf, pos)
    IN  IF ~b.ok THEN b
        ELSE CASE b.val.val \in {"+", "-"} -> get_line(buf, b.val.pos)
               [] b.val.val = ":" -> get_decimal(buf, b.val.pos)
               [] b.val.val = "$" ->
                    LET c == peek_u8(buf, b.val.pos)
                        len == get_decimal(buf, b.val.pos)
                    IN  IF ~c.ok THEN c
                        ELSE IF c.val.val = "-" THEN skip(buf, b.val.pos, 4)
                        ELSE IF ~len.ok THEN len
                        ELSE skip(buf, len.val.pos, BulkSpan(len.val.val))
               [] b.val.val = "*" ->
                    LET len == get_decimal(buf, b.val.pos)
                    IN  IF ~len.ok THEN len
                        ELSE CheckEntries(buf, len.val.pos, len.val.val)
               [] OTHER -> Err("Parse")

\* Frame::parse
RECURSIVE Frame_parse(_, _)
RECURSIVE ParseEntries(_, _, _, _)
ParseEntries(buf, pos, len, out) ==
    IF len = 0 THEN At(Array(out), pos)
    ELSE CHOOSE rest \in {IF ~r.ok THEN r
                          ELSE ParseEntries(buf, r.val.pos, len - 1, Append(out, r.val.val)) :
                             r \in {Frame_parse(buf, pos)}} : TRUE

Frame_parse(buf, pos) ==
    LET b == get_u8(buf, pos)
    IN  IF ~b.ok THEN b
        ELSE CASE b.val.val \in {"+", "-"} ->
                    LET line == get_line(buf, b.val.pos)
                    IN  IF ~line.ok THEN line
                        ELSE IF b.val.val = "+" THEN At(Simple(line.val.val), line.val.pos)
                        ELSE At(Error(line.val.val), line.val.pos)
               [] b.val.val = ":" ->
                    LET num == get_decimal(buf, b.val.pos)
                    IN  IF ~num.ok THEN num ELSE At(Integer(num.val.val), num.val.pos)
               [] b.val.val = "$" ->
                    LET c == peek_u8(buf, b.val.pos)
                        line == get_line(buf, b.val.pos)
                        len == get_decimal(buf, b.val.pos)
                    IN  IF ~c.ok THEN c
                        ELSE IF c.val.val = "-"
                        THEN (IF ~line.ok THEN line
                              ELSE IF line.val.val # <<"-", "1">> THEN Err("Parse")
                              ELSE At(Null, line.val.pos))
                        ELSE IF ~len.ok THEN len
                        ELSE IF Len(buf) - len.val.pos < len.val.val + 2
                        THEN Err("Incomplete")
                        ELSE At(Bulk(SubSeq(buf, len.val.pos + 1,
                                            len.val.pos + len.val.val)),
                                len.val.pos + len.val.val + 2)
               [] b.val.val = "*" ->
                    LET len == get_decimal(buf, b.val.pos)
                    IN  IF ~len.ok THEN len
                        ELSE ParseEntries(buf, len.val.pos, len.val.val, <<>>)
               [] OTHER -> Err("Unimplemented")

\* Connection::parse_frame: the frame, if the buffer holds a whole one, and the
\* buffer advanced by the length that Frame::check found.
parse_frame(buffer) ==
    LET checked == Frame_check(buffer, 0)
        frame == Frame_parse(buffer, 0)
    IN  IF checked.ok
        THEN (IF ~frame.ok THEN frame
              ELSE Ok([frame |-> Some(frame.val.val),
                       buffer |-> SubSeq(buffer, checked.val.pos + 1, Len(buffer))]))
        ELSE IF checked.val = "Incomplete"
        THEN Ok([frame |-> None, buffer |-> buffer])
        ELSE checked

\* write!(buf, "{}", val): the decimal digits of val.
RECURSIVE Decimal(_)
Decimal(val) ==
    IF val < 10 THEN <<DecimalDigits[val + 1]>>
    ELSE Append(Decimal(val \div 10), DecimalDigits[(val % 10) + 1])

\* Connection::write_decimal
write_decimal(val) == Decimal(val) \o CRLF

\* Connection::write_value
write_value(frame) ==
    CASE frame.type = "Simple" -> Ok(<<"+">> \o frame.val \o CRLF)
      [] frame.type = "Error" -> Ok(<<"-">> \o frame.val \o CRLF)
      [] frame.type = "Integer" -> Ok(<<":">> \o write_decimal(frame.val))
      [] frame.type = "Null" -> Ok(<<"$", "-", "1">> \o CRLF)
      [] frame.type = "Bulk" ->
           Ok(<<"$">> \o write_decimal(Len(frame.val)) \o frame.val \o CRLF)
      [] frame.type = "Array" -> Err("Unimplemented")

\* Connection::write_frame: the bytes written, or the error of write_value.
RECURSIVE WriteEntries(_)
WriteEntries(entries) ==
    IF entries = <<>> THEN Ok(<<>>)
    ELSE LET first == write_value(Head(entries))
             rest == WriteEntries(Tail(entries))
         IN  IF ~first.ok THEN first
             ELSE IF ~rest.ok THEN rest
             ELSE Ok(first.val \o rest.val)

write_frame(frame) ==
    IF frame.type = "Array"
    THEN LET entries == WriteEntries(frame.val)
         IN  IF ~entries.ok THEN entries
             ELSE Ok(<<"*">> \o write_decimal(Len(frame.val)) \o entries.val)
    ELSE write_value(frame)

\* The bytes of the frames of a list, one after the other.
RECURSIVE WriteAll(_)
WriteAll(frames) ==
    IF frames = <<>> THEN <<>> ELSE write_frame(Head(frames)).val \o WriteAll(Tail(frames))

\* ------------------------------------------------------------ listener
\* The Listener built in server::run, at the top of the loop of Listener::run:
\* every permit is free and the only completion sender is the Listener's own.
ListenerNew ==
    [pc |-> "acquire", backoff |-> 1, slept |-> <<>>,
     limit_conn |-> MAX_CONNECTIONS, shutdown_complete_tx |-> 1, exit |-> None]

\* Mutant of AcquireOwned: the permit is handed out but not taken off the semaphore.
AcquireOwnedKeepsPermit(l) == [l EXCEPT !.pc = "accept", !.backoff = 1, !.slept = <<>>]

\* limit_conn.acquire_owned() completes; Listener::accept starts with backoff 1.
AcquireOwned(l) ==
    [l EXCEPT !.pc = "accept", !.backoff = 1, !.slept = <<>>,
              !.limit_conn = l.limit_conn - 1]

\* Mutant of Spawn: the Handler is given no clone of the completion sender.
SpawnWithoutSender(l) == [l EXCEPT !.pc = "acquire"]

\* The Handler is built with a clone of shutdown_complete_tx and its task is
\* spawned with the permit; the loop of Listener::run starts over.
Spawn(l) ==
    [l EXCEPT !.pc = "acquire", !.shutdown_complete_tx = l.shutdown_complete_tx + 1]

\* The spawned task ends: drop(permit), then the Handler and its sender are dropped.
TaskEnds(l) ==
    [l EXCEPT !.limit_conn = l.limit_conn + 1,
              !.shutdown_complete_tx = l.shutdown_complete_tx - 1]

\* Mutant of ListenerEnds: server::run keeps its completion sender.
ListenerEndsKeepsSender(l, pc) ==
    [l EXCEPT !.pc = pc,
              !.limit_conn = IF l.pc \in {"accept", "sleep"} THEN l.limit_conn + 1
                             ELSE l.limit_conn]

\* The future of Listener::run is dropped (pc cancelled) or has returned an error
\* (pc failed): a permit it holds goes back to the semaphore; server::run then
\* drops the Listener's own completion sender.
ListenerEnds(l, pc) ==
    [l EXCEPT !.pc = pc,
              !.limit_conn = IF l.pc \in {"accept", "sleep"} THEN l.limit_conn + 1
                             ELSE l.limit_conn,
              !.shutdown_complete_tx = l.shutdown_complete_tx - 1]

\* Mutant of DoubleBackoff: the backoff grows by one second.
BackoffPlusOne(backoff) == backoff + 1

\* Listener::accept: backoff *= 2
DoubleBackoff(backoff) == 2 * backoff

\* Connection::new before the first call of read_frame: nothing is buffered and
\* nothing has been returned. stream holds all the bytes the peer sends, socket
\* those not yet read, sent the frames the peer encoded; partial and multi
\* record that a call found part of a frame, or more than one frame, buffered.
ConnectionNew ==
    [pc |-> "call", err |-> "", stream |-> <<>>, socket |-> <<>>, buffer |-> <<>>,
     frames |-> <<>>, sent |-> <<>>, partial |-> FALSE, multi |-> FALSE,
     served |-> 0, written |-> <<>>, signalled |-> "none"]

\* A connection whose peer sends the bytes of stream and then closes.
ConnectionOf(stream, sent) ==
    [ConnectionNew EXCEPT !.stream = stream, !.socket = stream, !.sent = sent]

\* ---------------------------------------------------------------- Init
\* The server after server::run has built its Listener.
\* client::connect: a Client with no call in progress; Client::subscribe turns it
\* into a Subscriber, which owns subscribed_channels
ClientNew ==
    [pc |-> "idle", call |-> "none", channels |-> <<>>, num |-> 0, calls |-> 0,
     subscriber |-> FALSE,
     subscribed_channels |-> <<>>, inbox |-> <<>>, response |-> None,
     result |-> None, printed |-> None, exit |-> "none"]

InitServer ==
    /\ listener = ListenerNew
    /\ store = StoreNew
    /\ background_task = FALSE
    /\ now = 0
    /\ purge_task = [pc |-> "check", when |-> 0]
    /\ handlers = [i \in Conns |->
           [pc |-> "idle", channels |-> <<>>, unsub |-> <<>>, subscriptions |-> <<>>]]
    /\ server = "running"
    /\ last = NoRequest
    /\ prev = [op |-> "none", key |-> "", ttl |-> FALSE]
    /\ msgs = [c \in Channels |-> <<>>]
    /\ published = [c \in Channels |-> <<>>]
    /\ acked = [c \in Channels |-> "none"]
    /\ owed = {}
    /\ client = ClientNew
    /\ mutex = None

Init == InitServer /\ conn = ConnectionNew

\* ----------------------------------------------------- normal mode, key-value
\* limit_conn.acquire_owned() of Listener::run completes.
AcquirePermit ==
    /\ listener.pc = "acquire"
    /\ listener.limit_conn > 0
    /\ listener' = AcquireOwned(listener)
    /\ UNCHANGED <<store, background_task, now, purge_task, handlers, server,
                   last, prev, msgs, published, acked, owed, conn, client, mutex>>

\* TcpListener::accept returns a socket: Listener::accept returns it and
\* Listener::run spawns the Handler of the connection.
AcceptOk(i) ==
    /\ listener.pc = "accept"
    /\ handlers[i].pc = "idle"
    /\ handlers' = [handlers EXCEPT ![i].pc = "run"]
    /\ listener' = Spawn(listener)
    /\ UNCHANGED <<store, background_task, now, purge_task, server,
                   last, prev, msgs, published, acked, owed, conn, client, mutex>>

\* TcpListener::accept returns an error: past the last backoff Listener::accept
\* and Listener::run return it and server::run leaves its select, dropping
\* notify_shutdown and its completion sender; otherwise the Listener sleeps.
AcceptErr ==
    /\ listener.pc = "accept"
    /\ IF listener.backoff > MaxBackoff
       THEN /\ listener' = ListenerEnds(listener, "failed")
            /\ server' = "shutdown"
       ELSE /\ listener' = [listener EXCEPT !.pc = "sleep",
                                            !.slept = Append(@, listener.backoff)]
            /\ server' = server
    /\ UNCHANGED <<store, background_task, now, purge_task, handlers,
                   last, prev, msgs, published, acked, owed, conn, client, mutex>>

\* time::sleep(backoff) of Listener::accept is over: the backoff is doubled.
AcceptRetry ==
    /\ listener.pc = "sleep"
    /\ listener' = [listener EXCEPT !.pc = "accept", !.backoff = DoubleBackoff(listener.backoff)]
    /\ UNCHANGED <<store, background_task, now, purge_task, handlers, server,
                   last, prev, msgs, published, acked, owed, conn, client, mutex>>

\* One round of the loop of Listener::run in which TcpListener::accept succeeds
\* at once: a permit is acquired, the connection accepted, its Handler spawned.
Accept(i) ==
    /\ server = "running"
    /\ listener.pc = "acquire"
    /\ listener.limit_conn > 0
    /\ handlers[i].pc = "idle"
    /\ handlers' = [handlers EXCEPT ![i].pc = "run"]
    /\ listener' = Spawn(AcquireOwned(listener))
    /\ UNCHANGED <<store, background_task, now, purge_task, server,
                   last, prev, msgs, published, acked, owed>>
    /\ UNCHANGED <<conn, client, mutex>>

\* Get::apply
Get_apply(i, key) ==
    /\ AtRun(i)
    /\ LET value == StoreGet(store, key)
           response == IF value # None THEN Bulk(value[1]) ELSE Null
       IN  Begin(i, Request(i, "get", key, "", None, <<>>, <<response>>), {})
    /\ UNCHANGED <<store, background_task, now, purge_task, handlers, server,
                   msgs, published, acked, owed>>
    /\ UNCHANGED <<listener, mutex>>

\* A GET of a connection whose client is not followed.
HandleGet(i, key) == Get_apply(i, key) /\ UNCHANGED <<conn, client>>

\* Set::apply with Db::set: the store is written under the mutex; the expirer is
\* notified, if it has to be, after the mutex is released.
Set_apply(i, key, value, expire) ==
    /\ AtRun(i)
    /\ store.next_id < MaxId
    /\ expire # None => now + expire[1] <= MaxTime
    /\ LET r == StoreSet(store, key, value, expire, now)
       IN  /\ store' = r.store
           /\ IF r.notify
              THEN /\ handlers' = [handlers EXCEPT ![i].pc = "notify"]
                   /\ Begin(i, Request(i, "set", key, value, expire, <<>>, <<>>), {key})
              ELSE /\ handlers' = handlers
                   /\ Begin(i, Request(i, "set", key, value, expire, <<>>,
                                       <<Simple("OK")>>), {key})
    /\ UNCHANGED <<background_task, now, purge_task, server, msgs, published, acked, owed>>
    /\ UNCHANGED <<listener, mutex>>

\* A SET of a connection whose client is not followed.
HandleSet(i, key, value, expire) == Set_apply(i, key, value, expire) /\ UNCHANGED <<conn, client>>

\* Db::set after the mutex is released: notify_one, then Set::apply writes OK.
Set_notify(i) ==
    /\ handlers[i].pc = "notify"
    /\ background_task' = TRUE
    /\ handlers' = [handlers EXCEPT ![i].pc = "run"]
    /\ Reply(i, Simple("OK"))
    /\ UNCHANGED <<store, now, purge_task, server, msgs, published, acked, owed>>
    /\ UNCHANGED <<listener, mutex>>

\* The end of a SET of a connection whose client is not followed.
SetNotify(i) == Set_notify(i) /\ UNCHANGED <<conn, client>>

\* Del::apply
Del_apply(i, key) ==
    /\ AtRun(i)
    /\ LET r == StoreDel(store, key)
       IN  /\ store' = r.store
           /\ Begin(i, Request(i, "del", key, "", None, <<>>, <<Integer(r.count)>>), {key})
    /\ UNCHANGED <<background_task, now, purge_task, handlers, server,
                   msgs, published, acked, owed>>
    /\ UNCHANGED <<listener, mutex>>

\* A DEL of a connection whose client is not followed.
HandleDel(i, key) == Del_apply(i, key) /\ UNCHANGED <<conn, client>>

\* ------------------------------------------------------------- the expirer
\* Instant::now() advances.
Tick ==
    /\ now < MaxTime
    /\ now' = now + 1
    /\ UNCHANGED <<store, background_task, purge_task, handlers, server,
                   last, prev, msgs, published, acked, owed>>
    /\ UNCHANGED <<listener, conn, client, mutex>>

\* Db::purge_expired_tasks: the loop condition !shared.is_shutdown().
PurgeCheck ==
    /\ purge_task.pc = "check"
    /\ purge_task' = [purge_task EXCEPT !.pc = IF store.shutdown THEN "done" ELSE "purge"]
    /\ UNCHANGED <<store, background_task, now, handlers, server,
                   last, prev, msgs, published, acked, owed>>
    /\ UNCHANGED <<listener, conn, client, mutex>>

\* Db::purge_expired_tasks: shared.purge_expired_keys(), then sleep or wait.
PurgeRun ==
    /\ purge_task.pc = "purge"
    /\ LET r == StorePurgeExpiredKeys(store, now)
       IN  /\ store' = r.store
           /\ purge_task' = IF r.next = None THEN [pc |-> "wait", when |-> 0]
                            ELSE [pc |-> "sleep", when |-> r.next[1]]
    /\ UNCHANGED <<background_task, now, handlers, server,
                   last, prev, msgs, published, acked, owed>>
    /\ UNCHANGED <<listener, conn, client, mutex>>

\* The sleep_until branch of the expirer's select.
PurgeWakeTimer ==
    /\ purge_task.pc = "sleep"
    /\ now >= purge_task.when
    /\ purge_task' = [pc |-> "check", when |-> 0]
    /\ UNCHANGED <<store, background_task, now, handlers, server,
                   last, prev, msgs, published, acked, owed>>
    /\ UNCHANGED <<listener, conn, client, mutex>>

\* background_task.notified() completes and takes the permit.
PurgeWakeNotified ==
    /\ purge_task.pc \in {"sleep", "wait"}
    /\ background_task
    /\ background_task' = FALSE
    /\ purge_task' = [pc |-> "check", when |-> 0]
    /\ UNCHANGED <<store, now, handlers, server,
                   last, prev, msgs, published, acked, owed>>
    /\ UNCHANGED <<listener, conn, client, mutex>>

\* --------------------------------------------------------------- pub/sub
\* The Handler task of connection i ends: its StreamMap and receivers are dropped,
\* its permit and its completion sender given back.
Finish(i) ==
    /\ handlers' = [handlers EXCEPT ![i] =
           [pc |-> "done", channels |-> <<>>, unsub |-> <<>>, subscriptions |-> <<>>]]
    /\ store' = DropAll(store, handlers[i].subscriptions)
    /\ owed' = IF i = Observed THEN {} ELSE owed
    /\ listener' = TaskEnds(listener)

\* Publish::apply with Db::publish.
Publish_apply(i, channel, message) ==
    /\ AtRun(i)
    /\ store.pub_sub[channel] # None => store.pub_sub[channel][1].pos < MaxPos
    /\ LET r == StorePublish(store, channel, message)
       IN  /\ store' = r.store
           /\ Begin(i, Request(i, "publish", channel, message, None, <<>>,
                               <<Integer(r.count)>>), {})
           /\ owed' = IF r.store # store /\ handlers[Observed].pc = "subscribe"
                         /\ acked[channel] = "sub"
                      THEN owed \cup {[chan |-> channel,
                                       pos |-> store.pub_sub[channel][1].pos]}
                      ELSE owed
           /\ published' = IF r.store # store
                           THEN [published EXCEPT ![channel] = Append(@, message)]
                           ELSE published
    /\ UNCHANGED <<background_task, now, purge_task, handlers, server,
                   msgs, acked>>
    /\ UNCHANGED <<listener, mutex>>

\* A PUBLISH of a connection whose client is not followed.
HandlePublish(i, channel, message) == Publish_apply(i, channel, message) /\ UNCHANGED <<conn, client>>

\* Db::publish, step by step. The guard is the local `state`: it is taken by
\* lock() and lives until the function returns.
\* self.shared.store.lock(): Handler i has read a PUBLISH and holds the guard.
DbPublishLock(i, key, value) ==
    /\ AtRun(i)
    /\ mutex = None
    /\ store.pub_sub[key] # None => store.pub_sub[key][1].pos < MaxPos
    /\ mutex' = Some([holder |-> i, key |-> key, value |-> value, sent |-> None])
    /\ handlers' = [handlers EXCEPT ![i].pc = "publish"]
    /\ UNCHANGED <<store, background_task, now, purge_task, server, last, prev,
                   msgs, published, acked, owed, listener, conn, client>>

\* state.publish(key, value): Store::publish looks the broadcaster up and sends.
DbPublishSend(i) ==
    /\ mutex # None
    /\ mutex[1].holder = i
    /\ mutex[1].sent = None
    /\ LET channel == mutex[1].key
           r == StorePublish(store, channel, mutex[1].value)
       IN  /\ store' = r.store
           /\ mutex' = Some([mutex[1] EXCEPT !.sent = Some(r.count)])
           /\ owed' = IF r.store # store /\ handlers[Observed].pc = "subscribe"
                         /\ acked[channel] = "sub"
                      THEN owed \cup {[chan |-> channel,
                                       pos |-> store.pub_sub[channel][1].pos]}
                      ELSE owed
           /\ published' = IF r.store # store
                           THEN [published EXCEPT ![channel] = Append(@, mutex[1].value)]
                           ELSE published
    /\ UNCHANGED <<background_task, now, purge_task, handlers, server, last, prev,
                   msgs, acked, listener, conn, client>>

\* Mutant of DbPublishReturn: the guard outlives Db::publish and is held while
\* Publish::apply writes the count.
DbPublishReturnKeepsGuard(i) ==
    /\ mutex # None
    /\ mutex[1].holder = i
    /\ mutex[1].sent # None
    /\ handlers[i].pc = "publish"
    /\ mutex' = mutex
    /\ handlers' = [handlers EXCEPT ![i].pc = "run"]
    /\ Begin(i, Request(i, "publish", mutex[1].key, mutex[1].value, None, <<>>,
                        <<Integer(mutex[1].sent[1])>>), {})
    /\ UNCHANGED <<store, background_task, now, purge_task, server,
                   msgs, published, acked, owed, listener, conn, client>>

\* Db::publish returns, the guard is dropped, and Publish::apply writes the count.
DbPublishReturn(i) ==
    /\ mutex # None
    /\ mutex[1].holder = i
    /\ mutex[1].sent # None
    /\ mutex' = None
    /\ handlers' = [handlers EXCEPT ![i].pc = "run"]
    /\ Begin(i, Request(i, "publish", mutex[1].key, mutex[1].value, None, <<>>,
                        <<Integer(mutex[1].sent[1])>>), {})
    /\ UNCHANGED <<store, background_task, now, purge_task, server,
                   msgs, published, acked, owed, listener, conn, client>>

\* A Store operation of Db that takes the guard and drops it when it returns.
Locked(A) == mutex = None /\ A

\* subscribe_to_channel for the first channel of self.channels, with its
\* acknowledgment written.
SubscribeFirst(i, pc, channels, subs) ==
    LET r == SubscribeToChannel(store, subs, Head(channels))
    IN  /\ store' = r.store
        /\ handlers' = [handlers EXCEPT ![i] =
               [pc |-> pc, channels |-> Tail(channels), unsub |-> <<>>,
                subscriptions |-> r.subscriptions]]
        /\ acked' = IF i = Observed THEN [acked EXCEPT ![Head(channels)] = "sub"]
                     ELSE acked

\* Command::apply of SUBSCRIBE in normal mode: Subscribe::apply starts with an
\* empty StreamMap and subscribes to the first channel.
Subscribe_apply(i, chans) ==
    /\ AtRun(i)
    /\ chans # <<>>
    /\ SubscribeFirst(i, "subscribe", chans, <<>>)
    /\ Begin(i, Request(i, "subscribe", "", "", None, chans,
                        <<SubscribeToChannel(store, <<>>, Head(chans)).frame>>), {})
    /\ UNCHANGED <<background_task, now, purge_task, server, msgs, published, owed>>
    /\ UNCHANGED <<listener, mutex>>

\* A SUBSCRIBE of a connection whose client is not followed.
HandleSubscribe(i, chans) == Subscribe_apply(i, chans) /\ UNCHANGED <<conn, client>>

\* The drain loop of Subscribe::apply, one channel after the previous write.
SubscribeLoop(i) ==
    /\ handlers[i].pc = "subscribe"
    /\ handlers[i].channels # <<>>
    /\ SubscribeFirst(i, "subscribe", handlers[i].channels, handlers[i].subscriptions)
    /\ Reply(i, SubscribeToChannel(store, handlers[i].subscriptions,
                                   Head(handlers[i].channels)).frame)
    /\ UNCHANGED <<background_task, now, purge_task, server, msgs, published, owed>>
    /\ UNCHANGED <<listener, mutex>>

\* The drain loop on a connection whose client is not followed.
SubscribeNext(i) == SubscribeLoop(i) /\ UNCHANGED <<conn, client>>

\* handle_command, Subscribe arm: the channels are pushed to subscribe_to and the
\* loop of Subscribe::apply subscribes to the first of them.
HandleCommandSubscribe(i, chans) ==
    /\ AtSelect(i)
    /\ chans # <<>>
    /\ SubscribeFirst(i, "subscribe", chans, handlers[i].subscriptions)
    /\ Begin(i, Request(i, "subscribe", "", "", None, chans,
                        <<SubscribeToChannel(store, handlers[i].subscriptions,
                                             Head(chans)).frame>>), {})
    /\ UNCHANGED <<background_task, now, purge_task, server, msgs, published, owed>>
    /\ UNCHANGED <<listener, mutex>>

\* A SUBSCRIBE in subscriber mode on a connection whose client is not followed.
SubHandleSubscribe(i, chans) == HandleCommandSubscribe(i, chans) /\ UNCHANGED <<conn, client>>

\* Mutant of LoopAgain: Subscribe::apply returns once the StreamMap is empty.
LoopUntilEmpty(subscriptions) == IF subscriptions = <<>> THEN "run" ELSE "subscribe"

\* The loop of Subscribe::apply has no exit on the StreamMap: after
\* handle_command the Handler is in it again, whatever is left subscribed.
LoopAgain(subscriptions) == "subscribe"

\* One round of the unsubscribe loop for the first channel of the list.
UnsubscribeFirst(i, channels) ==
    LET r == UnsubscribeChannel(store, handlers[i].subscriptions, Head(channels))
    IN  /\ store' = r.store
        /\ handlers' = [handlers EXCEPT ![i].pc = LoopAgain(r.subscriptions),
                                        ![i].unsub = Tail(channels),
                                        ![i].subscriptions = r.subscriptions]
        /\ acked' = IF i = Observed THEN [acked EXCEPT ![Head(channels)] = "unsub"]
                     ELSE acked
        /\ owed' = IF i = Observed THEN {x \in owed : x.chan # Head(channels)}
                    ELSE owed

\* handle_command, Unsubscribe arm: an empty list stands for every key of the
\* StreamMap; the first channel is removed and acknowledged.
HandleCommandUnsubscribe(i, chans) ==
    /\ AtSelect(i)
    /\ LET list == IF chans = <<>> THEN SubKeys(handlers[i].subscriptions) ELSE chans
       IN  IF list = <<>>
           THEN /\ Begin(i, Request(i, "unsubscribe", "", "", None, chans, <<>>), {})
                /\ UNCHANGED <<store, handlers, acked, owed>>
           ELSE /\ UnsubscribeFirst(i, list)
                /\ Begin(i, Request(i, "unsubscribe", "", "", None, chans,
                       <<UnsubscribeChannel(store, handlers[i].subscriptions,
                                            Head(list)).frame>>), {})
    /\ UNCHANGED <<background_task, now, purge_task, server, msgs, published>>
    /\ UNCHANGED <<listener, mutex>>

\* An UNSUBSCRIBE on a connection whose client is not followed.
SubHandleUnsubscribe(i, chans) == HandleCommandUnsubscribe(i, chans) /\ UNCHANGED <<conn, client>>

\* The unsubscribe loop, one channel after the previous write.
UnsubscribeLoop(i) ==
    /\ handlers[i].pc = "subscribe"
    /\ handlers[i].unsub # <<>>
    /\ UnsubscribeFirst(i, handlers[i].unsub)
    /\ Reply(i, UnsubscribeChannel(store, handlers[i].subscriptions,
                                   Head(handlers[i].unsub)).frame)
    /\ UNCHANGED <<background_task, now, purge_task, server, msgs, published>>
    /\ UNCHANGED <<listener, mutex>>

\* The unsubscribe loop on a connection whose client is not followed.
UnsubscribeNext(i) == UnsubscribeLoop(i) /\ UNCHANGED <<conn, client>>

\* The subscriptions.next() branch of the select: the stream at index n yields a
\* message and its frame is written.
ForwardMessage(i, n) ==
    /\ AtSelect(i)
    /\ n \in 1..Len(handlers[i].subscriptions)
    /\ LET sub == handlers[i].subscriptions[n]
           r == StreamPoll(store.pub_sub[sub.name][1], sub.next)
       IN  /\ r # None
           /\ handlers' = [handlers EXCEPT ![i].subscriptions[n].next = r[1].next]
           /\ msgs' = IF i = Observed
                       THEN [msgs EXCEPT ![sub.name] = Append(@,
                                [pos |-> r[1].pos,
                                 frame |-> make_message_frame(sub.name, r[1].msg)])]
                       ELSE msgs
           /\ owed' = IF i = Observed
                       THEN {x \in owed : ~(x.chan = sub.name /\ x.pos >= sub.next
                                               /\ x.pos <= r[1].pos)}
                       ELSE owed
    /\ UNCHANGED <<store, background_task, now, purge_task, server,
                   last, prev, published, acked>>
    /\ UNCHANGED <<listener, mutex>>

\* A message forwarded on a connection whose client is not followed.
Forward(i, n) == ForwardMessage(i, n) /\ UNCHANGED <<conn, client>>

\* Command::apply of UNSUBSCRIBE in normal mode: an error, the Handler ends.
Unsubscribe_apply(i, chans) ==
    /\ AtRun(i)
    /\ Finish(i)
    /\ Begin(i, Request(i, "unsubscribe", "", "", None, chans, <<>>), {})
    /\ UNCHANGED <<background_task, now, purge_task, server, msgs, published, acked>>
    /\ UNCHANGED mutex

\* An UNSUBSCRIBE in normal mode of a connection whose client is not followed.
HandleUnsubscribe(i, chans) == Unsubscribe_apply(i, chans) /\ UNCHANGED <<conn, client>>

\* read_frame returns None: the peer closed the socket and the Handler returns.
PeerClosed(i) ==
    /\ AtRun(i) \/ AtSelect(i)
    /\ Finish(i)
    /\ UNCHANGED <<background_task, now, purge_task, server,
                   last, prev, msgs, published, acked>>
    /\ UNCHANGED <<conn, client, mutex>>

\* A write_frame inside the subscribe or unsubscribe loop fails: the Handler ends.
WriteFailed(i) ==
    /\ handlers[i].pc = "subscribe"
    /\ ~AtSelect(i)
    /\ Finish(i)
    /\ UNCHANGED <<background_task, now, purge_task, server,
                   last, prev, msgs, published, acked>>
    /\ UNCHANGED <<conn, client, mutex>>

\* ---------------------------------------------------- requests as frames
\* Unknown::apply in normal mode: the error frame is written, nothing else is done.
Unknown_apply(i, frame) ==
    /\ AtRun(i)
    /\ \E cmd \in {FromFrame[frame]} :
           /\ cmd.ok
           /\ cmd.val.type = "Unknown"
           /\ Begin(i, FrameRequest("unknown", frame,
                                    <<UnknownResponse(cmd.val.cmd_name)>>), {})
    /\ UNCHANGED <<store, background_task, now, purge_task, handlers, server,
                   msgs, published, acked, owed, listener, mutex>>

\* An unknown command of a connection whose client is not followed.
HandleUnknown(i, frame) == Unknown_apply(i, frame) /\ UNCHANGED <<conn, client>>

\* Ping::apply
Ping_apply(i, frame) ==
    /\ AtRun(i)
    /\ \E cmd \in {FromFrame[frame]} :
           /\ cmd.ok
           /\ cmd.val.type = "Ping"
           /\ Begin(i, FrameRequest("ping", frame, <<PingResponse(cmd.val.msg)>>), {})
    /\ UNCHANGED <<store, background_task, now, purge_task, handlers, server,
                   msgs, published, acked, owed, listener, mutex>>

\* A PING of a connection whose client is not followed.
HandlePing(i, frame) == Ping_apply(i, frame) /\ UNCHANGED <<conn, client>>

\* Handler::run: Command::from_frame returns an error and the Handler ends with it.
FromFrameError(i, frame) ==
    /\ AtRun(i)
    /\ ~FromFrame[frame].ok
    /\ Finish(i)
    /\ Begin(i, FrameRequest("invalid", frame, <<>>), {})
    /\ UNCHANGED <<background_task, now, purge_task, server, msgs, published, acked, mutex>>

\* A frame that is no request, on a connection whose client is not followed.
HandleInvalid(i, frame) == FromFrameError(i, frame) /\ UNCHANGED <<conn, client>>

\* Handler::run: the frame is parsed by Command::from_frame and the command applied
\* by Command::apply.
Command_apply(i, frame) ==
    \E cmd \in {FromFrame[frame]} :
        /\ cmd.ok
        /\ \/ cmd.val.type = "Get" /\ Get_apply(i, Str(cmd.val.key))
           \/ cmd.val.type = "Set"
                /\ Set_apply(i, Str(cmd.val.key), Str(cmd.val.value), cmd.val.expire)
           \/ cmd.val.type = "Del" /\ Del_apply(i, Str(cmd.val.key))
           \/ cmd.val.type = "Publish"
                /\ Publish_apply(i, Str(cmd.val.channel), Str(cmd.val.message))
           \/ cmd.val.type = "Subscribe"
                /\ Subscribe_apply(i, ChannelNames(cmd.val.channels))
           \/ cmd.val.type = "Unsubscribe"
                /\ Unsubscribe_apply(i, ChannelNames(cmd.val.channels))
           \/ Ping_apply(i, frame)
           \/ Unknown_apply(i, frame)

\* A request of a connection whose client is not followed.
HandleRequest(i, frame) == Command_apply(i, frame) /\ UNCHANGED <<conn, client>>

\* handle_command, any other command: Unknown::apply with the command's name.
SubHandleOther(i, frame) ==
    /\ AtSelect(i)
    /\ \E cmd \in {FromFrame[frame]} :
           /\ cmd.ok
           /\ cmd.val.type \notin {"Subscribe", "Unsubscribe"}
           /\ Begin(i, FrameRequest("other", frame,
                                    <<UnknownResponse(get_name(cmd.val))>>), {})
    /\ UNCHANGED <<store, background_task, now, purge_task, handlers, server,
                   msgs, published, acked, owed, listener, conn, client, mutex>>

\* handle_command: Command::from_frame returns an error; Subscribe::apply and the
\* Handler end with it.
SubHandleInvalid(i, frame) ==
    /\ AtSelect(i)
    /\ ~FromFrame[frame].ok
    /\ Finish(i)
    /\ Begin(i, FrameRequest("invalid", frame, <<>>), {})
    /\ UNCHANGED <<background_task, now, purge_task, server, msgs, published, acked, conn, client, mutex>>

\* The read_frame branch of the select of Subscribe::apply with handle_command.
SubHandleRequest(i, frame) ==
    \E cmd \in {FromFrame[frame]} :
        \/ /\ cmd.ok
           /\ \/ cmd.val.type = "Subscribe"
                   /\ SubHandleSubscribe(i, ChannelNames(cmd.val.channels))
              \/ cmd.val.type = "Unsubscribe"
                   /\ SubHandleUnsubscribe(i, ChannelNames(cmd.val.channels))
        \/ SubHandleOther(i, frame)
        \/ SubHandleInvalid(i, frame)

\* -------------------------------------------------------------- shutdown
\* server::run: the shutdown future resolves and the future of Listener::run is
\* dropped; notify_shutdown and the Listener's completion sender are dropped.
ServerShutdown ==
    /\ server = "running"
    /\ server' = "shutdown"
    /\ listener' = ListenerEnds(listener, "cancelled")
    /\ UNCHANGED <<store, background_task, now, purge_task, handlers,
                   last, prev, msgs, published, acked, owed>>
    /\ UNCHANGED <<client, mutex>>

\* The shutdown signal while no connection's bytes are followed.
ShutdownSignal == ServerShutdown /\ UNCHANGED conn

\* The shutdown.recv() branch of the select of Handler::run or Subscribe::apply.
HandlerShutdown(i) ==
    /\ server # "running"
    /\ AtRun(i) \/ AtSelect(i)
    /\ Finish(i)
    /\ UNCHANGED <<background_task, now, purge_task, server,
                   last, prev, msgs, published, acked>>
    /\ UNCHANGED <<conn, client, mutex>>

\* shutdown_complete_rx.recv() of server::run completes once every completion
\* sender is dropped; server::run returns, the DbDropGuard is dropped and
\* shutdown_purge_task sets the Store's shutdown flag.
GuardDrop ==
    /\ server = "shutdown"
    /\ listener.shutdown_complete_tx = 0
    /\ store' = [store EXCEPT !.shutdown = TRUE]
    /\ server' = "dropping"
    /\ UNCHANGED <<background_task, now, purge_task, handlers,
                   last, prev, msgs, published, acked, owed>>
    /\ UNCHANGED <<listener, conn, client, mutex>>

\* shutdown_purge_task after the mutex is released: notify_one.
GuardNotify ==
    /\ server = "dropping"
    /\ background_task' = TRUE
    /\ server' = "returned"
    /\ UNCHANGED <<store, now, purge_task, handlers,
                   last, prev, msgs, published, acked, owed>>
    /\ UNCHANGED <<listener, conn, client, mutex>>

\* main: server::run has returned and main returns Ok(()), exit status 0.
MainReturns ==
    /\ server = "returned"
    /\ listener.exit = None
    /\ listener' = [listener EXCEPT !.exit = Some(0)]
    /\ UNCHANGED <<store, background_task, now, purge_task, handlers, server,
                   last, prev, msgs, published, acked, owed, conn, client, mutex>>

\* -------------------------------------------------------------- reading
\* One round of the loop of read_frame up to its return or its read_buf:
\* parse_frame returns a frame, which read_frame returns, or nothing, and
\* read_frame goes on to read_buf, or an error, which read_frame returns.
ParseStep(c) ==
    LET r == parse_frame(c.buffer)
    IN  IF ~r.ok THEN [c EXCEPT !.pc = "error", !.err = r.val]
        ELSE IF r.val.frame = None
        THEN [c EXCEPT !.pc = "read", !.partial = @ \/ c.buffer # <<>>]
        ELSE [c EXCEPT !.pc = "call",
                       !.frames = Append(@, r.val.frame[1]),
                       !.buffer = r.val.buffer,
                       !.multi = @ \/ r.val.buffer # <<>>]

\* read_frame is called and tries the bytes that are buffered.
ReadFrame ==
    /\ conn.pc = "call"
    /\ conn' = ParseStep(conn)
    /\ UNCHANGED <<store, background_task, now, purge_task, handlers, server,
                   last, prev, msgs, published, acked, owed, listener, client, mutex>>

\* read_buf appends the next n bytes of the socket to the buffer and the loop of
\* read_frame tries again.
ReadBuf(n) ==
    /\ conn.pc = "read"
    /\ n \in 1..Len(conn.socket)
    /\ conn' = ParseStep([conn EXCEPT
                    !.socket = SubSeq(@, n + 1, Len(@)),
                    !.buffer = @ \o SubSeq(conn.socket, 1, n)])
    /\ UNCHANGED <<store, background_task, now, purge_task, handlers, server,
                   last, prev, msgs, published, acked, owed, listener, client, mutex>>

\* Mutant of ReadEof: read_frame returns None at the end of the stream whatever
\* is left in the buffer.
ReadEofDropsBuffer ==
    /\ conn.pc = "read"
    /\ conn.socket = <<>>
    /\ conn' = [conn EXCEPT !.pc = "closed"]
    /\ UNCHANGED <<store, background_task, now, purge_task, handlers, server,
                   last, prev, msgs, published, acked, owed, listener, client, mutex>>

\* read_buf returns 0, the peer has closed: read_frame returns None when the
\* buffer is empty and the Disconnect error otherwise.
ReadEof ==
    /\ conn.pc = "read"
    /\ conn.socket = <<>>
    /\ conn' = IF conn.buffer = <<>> THEN [conn EXCEPT !.pc = "closed"]
               ELSE [conn EXCEPT !.pc = "error", !.err = "Disconnect"]
    /\ UNCHANGED <<store, background_task, now, purge_task, handlers, server,
                   last, prev, msgs, published, acked, owed, listener, client, mutex>>

\* ------------------------------------------- the Handler on its Connection
\* Mutant of HandlerReads: read_frame is called while apply has not returned.
HandlerReadsAhead == handlers[Observed].pc \in {"run", "notify"}

\* Handler::run calls read_frame at the top of its loop: the command of every frame
\* it was returned has been applied and apply has returned.
HandlerReads == AtRun(Observed) /\ conn.served = Len(conn.frames)

\* Handler::run: read_frame on the socket of the observed connection.
RunReadFrame == HandlerReads /\ ReadFrame

RunReadBuf(n) == HandlerReads /\ ReadBuf(n)

RunReadEof == HandlerReads /\ ReadEof

\* Handler::run: the frame that read_frame returned goes through
\* Command::from_frame and Command::apply; what apply writes is flushed by
\* write_frame before apply returns.
RunApply ==
    /\ conn.served < Len(conn.frames)
    /\ LET frame == conn.frames[conn.served + 1]
       IN  \/ /\ Command_apply(Observed, frame)
              /\ conn' = [conn EXCEPT !.served = @ + 1, !.written = @ \o last'.reply]
           \/ /\ FromFrameError(Observed, frame)
              /\ conn' = [conn EXCEPT !.served = @ + 1]
    /\ UNCHANGED client

\* Set::apply writes OK after Db::set has notified the expirer.
RunSetNotify ==
    /\ Set_notify(Observed)
    /\ conn' = [conn EXCEPT !.written = Append(@, last'.reply[Len(last'.reply)])]
    /\ UNCHANGED client

\* Handler::run: read_frame returned None, the Handler returns.
RunClosed ==
    /\ conn.pc = "closed"
    /\ PeerClosed(Observed)

\* Handler::run: read_frame returned an error, `res?` returns it and the Handler
\* ends; conn.err keeps the error.
RunReadError ==
    /\ conn.pc = "error"
    /\ AtRun(Observed)
    /\ Finish(Observed)
    /\ UNCHANGED <<background_task, now, purge_task, server,
                   last, prev, msgs, published, acked>>
    /\ UNCHANGED <<conn, client, mutex>>

\* The drain loop of Subscribe::apply writes the next acknowledgment.
RunSubscribeLoop ==
    /\ SubscribeLoop(Observed)
    /\ conn' = [conn EXCEPT !.written = Append(@, last'.reply[Len(last'.reply)])]
    /\ UNCHANGED client

\* The Handler is between the return of read_frame and the return of apply.
Handling ==
    \/ AtRun(Observed) /\ conn.served < Len(conn.frames)
    \/ handlers[Observed].pc = "notify"
    \/ handlers[Observed].pc = "subscribe" /\ handlers[Observed].channels # <<>>

\* The shutdown signal; signalled keeps whether it found the Handler handling a
\* request or waiting in a select.
RunShutdownSignal ==
    /\ ServerShutdown
    /\ conn' = [conn EXCEPT !.signalled = IF Handling THEN "request"
                                          ELSE handlers[Observed].pc]

\* Mutant of SelectsShutdown: the signal is also looked at after read_frame has
\* returned a frame.
SelectsShutdownAfterRead == AtRun(Observed) \/ AtSelect(Observed)

\* The Handler waits in a select that has shutdown.recv() as a branch: that of
\* Handler::run, next to read_frame, or that of Subscribe::apply.
SelectsShutdown == HandlerReads \/ AtSelect(Observed)

\* The shutdown.recv() branch of the select is taken and the Handler returns.
RunShutdown == SelectsShutdown /\ HandlerShutdown(Observed)

\* ---------------------------------------------------------- the client
\* impl fmt::Display for Frame
RECURSIVE Display(_)
Display(frame) ==
    CASE frame.type = "Simple" -> frame.val
      [] frame.type = "Error" -> "error: " \o frame.val
      [] frame.type = "Integer" -> ToString(frame.val)
      [] frame.type = "Bulk" -> frame.val
      [] frame.type = "Null" -> "(nil)"
      [] frame.type = "Array" ->
            IF frame.val = <<>> THEN ""
            ELSE IF Len(frame.val) = 1 THEN Display(frame.val[1])
            ELSE Display(frame.val[1]) \o " " \o Display(Array(Tail(frame.val)))

\* MiniRedisConnectionError
CommandExecute(msg) == [type |-> "CommandExecute", msg |-> msg]
Disconnect == [type |-> "Disconnect", msg |-> ""]
InvalidFrameType == [type |-> "InvalidFrameType", msg |-> ""]
InvalidArgument(msg) == [type |-> "InvalidArgument", msg |-> msg]

\* Client::read_response of what read_frame returned: Some frame, or None.
read_response(response) ==
    IF response = None THEN Err(Disconnect)
    ELSE IF response[1].type = "Error" THEN Err(CommandExecute(response[1].val))
    ELSE Ok(response[1])

\* Client::get after the request is written: read_response()?, then the match.
Client_get(response) ==
    IF ~response.ok THEN response
    ELSE CASE response.val.type = "Simple" -> Ok(Some(response.val.val))
           [] response.val.type = "Bulk" -> Ok(Some(response.val.val))
           [] OTHER -> Err(CommandExecute(Display(response.val)))

\* bin/cli.rs main, Command::Get: what is printed for the result of client.get;
\* an Err leaves main through the ? and nothing is printed.
CliGet(result) ==
    IF ~result.ok THEN [printed |-> None, exit |-> "error"]
    ELSE IF result.val # None
         THEN [printed |-> Some("\"" \o result.val[1] \o "\""), exit |-> "ok"]
         ELSE [printed |-> Some("(nil)"), exit |-> "ok"]

\* Frames that the Handler of the observed connection has written arrive at its client.
Deliver(frames) == client' = [client EXCEPT !.inbox = @ \o frames]

\* A call of the client starts: the request is written and what the Handler writes
\* at once is on the way; num responses are to be read.
Call(name, channels, num) ==
    /\ client.calls < MaxCalls
    /\ client' = [client EXCEPT !.pc = "wait", !.call = name, !.channels = channels,
                                !.num = num, !.inbox = @ \o last'.reply,
                                !.calls = @ + 1, !.response = None, !.result = None,
                                !.printed = None, !.exit = "none"]

\* Client::get writes the Get frame; the Handler of its connection applies it and
\* the reply is on the way to the client.
ClientGet(key) ==
    /\ client.pc = "idle"
    /\ ~client.subscriber
    /\ Get_apply(Observed, key)
    /\ Call("Client::get", <<key>>, 1)
    /\ UNCHANGED conn

\* Client::get reads the response and returns; main prints the result.
ClientGetReturns ==
    /\ client.pc = "wait"
    /\ client.call = "Client::get"
    /\ client.inbox # <<>>
    /\ LET result == Client_get(read_response(Some(Head(client.inbox))))
           out == CliGet(result)
       IN  client' = [client EXCEPT !.pc = "idle", !.inbox = Tail(@),
                                    !.response = Some(Head(client.inbox)),
                                    !.result = Some(result),
                                    !.printed = out.printed, !.exit = out.exit]
    /\ UNCHANGED <<store, background_task, now, purge_task, handlers, server,
                   last, prev, msgs, published, acked, owed, listener, conn, mutex>>

\* impl PartialEq<&str> for Frame
FrameEq(frame, str) == frame.type \in {"Simple", "Bulk"} /\ frame.val = str

\* One round of the loop of Client::subscribe_cmd: the response read is matched
\* against the channel whose acknowledgment is due.
SubscribeResponse(response, channel) ==
    IF ~response.ok THEN response
    ELSE IF response.val.type = "Array"
    THEN IF /\ Len(response.val.val) >= 2
            /\ FrameEq(response.val.val[1], "subscribe")
            /\ FrameEq(response.val.val[2], channel)
         THEN Ok(<<>>)
         ELSE Err(CommandExecute(Display(response.val)))
    ELSE Err(InvalidFrameType)

\* Vec::retain(|c| *channel != &c[..]) on subscribed_channels
Retain(subscribed, channel) == SelectSeq(subscribed, LAMBDA c : ~FrameEq(channel, c))

\* One round of the loop of Subscriber::unsubscribe: the response read, and what it
\* does to subscribed_channels.
UnsubscribeResponse(subscribed, response) ==
    IF ~response.ok THEN [result |-> response, subscribed_channels |-> subscribed]
    ELSE IF response.val.type = "Array"
    THEN IF Len(response.val.val) >= 2 /\ FrameEq(response.val.val[1], "unsubscribe")
         THEN LET len == Len(subscribed)
                  retained == Retain(subscribed, response.val.val[2])
              IN  IF len = 0
                  THEN [result |-> Err(InvalidArgument(Display(response.val))),
                        subscribed_channels |-> subscribed]
                  ELSE IF Len(retained) # len - 1
                  THEN [result |-> Err(CommandExecute(Display(response.val))),
                        subscribed_channels |-> retained]
                  ELSE [result |-> Ok(<<>>), subscribed_channels |-> retained]
         ELSE [result |-> Err(InvalidFrameType), subscribed_channels |-> subscribed]
    ELSE [result |-> Err(CommandExecute(Display(response.val))),
          subscribed_channels |-> subscribed]

\* Subscriber::next_message of a frame read
NextMessage(frame) ==
    IF frame.type = "Array"
    THEN IF Len(frame.val) = 3 /\ FrameEq(frame.val[1], "message")
         THEN Ok(Some([channel |-> Display(frame.val[2]),
                       content |-> Display(frame.val[3])]))
         ELSE Err(InvalidFrameType)
    ELSE Err(CommandExecute(Display(frame)))

\* Client::subscribe: subscribe_cmd writes the Subscribe frame.
ClientSubscribe(chans) ==
    /\ client.pc = "idle"
    /\ ~client.subscriber
    /\ Subscribe_apply(Observed, chans)
    /\ Call("Client::subscribe", chans, Len(chans))
    /\ UNCHANGED conn

\* Subscriber::subscribe: subscribe_cmd writes the Subscribe frame.
SubscriberSubscribe(chans) ==
    /\ client.pc = "idle"
    /\ client.subscriber
    /\ HandleCommandSubscribe(Observed, chans)
    /\ Call("Subscriber::subscribe", chans, Len(chans))
    /\ UNCHANGED conn

\* One round of the loop of subscribe_cmd; after the last, Client::subscribe returns
\* the Subscriber that owns the channels and Subscriber::subscribe extends
\* subscribed_channels. An error ends the call, and the scenario.
ClientSubscribeRead ==
    /\ client.pc = "wait"
    /\ client.call \in {"Client::subscribe", "Subscriber::subscribe"}
    /\ client.num > 0
    /\ client.inbox # <<>>
    /\ LET channel == client.channels[Len(client.channels) - client.num + 1]
           r == SubscribeResponse(read_response(Some(Head(client.inbox))), channel)
           read == [client EXCEPT !.inbox = Tail(@), !.response = Some(Head(client.inbox)),
                                  !.num = @ - 1]
       IN  client' =
             IF ~r.ok THEN [read EXCEPT !.pc = "failed", !.result = Some(r)]
             ELSE IF client.num > 1 THEN read
             ELSE [read EXCEPT !.pc = "idle", !.result = Some(r), !.subscriber = TRUE,
                               !.subscribed_channels = @ \o client.channels]
    /\ UNCHANGED <<store, background_task, now, purge_task, handlers, server,
                   last, prev, msgs, published, acked, owed, listener, conn, mutex>>

\* Subscriber::unsubscribe: the Unsubscribe frame is written; num is the number of
\* responses the loop will read.
SubscriberUnsubscribe(chans) ==
    /\ client.pc = "idle"
    /\ client.subscriber
    /\ HandleCommandUnsubscribe(Observed, chans)
    /\ Call("Subscriber::unsubscribe", chans,
            IF chans = <<>> THEN Len(client.subscribed_channels) ELSE Len(chans))
    /\ UNCHANGED conn

\* One round of the loop of Subscriber::unsubscribe.
ClientUnsubscribeRead ==
    /\ client.pc = "wait"
    /\ client.call = "Subscriber::unsubscribe"
    /\ client.num > 0
    /\ client.inbox # <<>>
    /\ LET r == UnsubscribeResponse(client.subscribed_channels,
                                    read_response(Some(Head(client.inbox))))
           read == [client EXCEPT !.inbox = Tail(@), !.response = Some(Head(client.inbox)),
                                  !.num = @ - 1,
                                  !.subscribed_channels = r.subscribed_channels]
       IN  client' = IF r.result.ok THEN read
                     ELSE [read EXCEPT !.pc = "failed", !.result = Some(r.result)]
    /\ UNCHANGED <<store, background_task, now, purge_task, handlers, server,
                   last, prev, msgs, published, acked, owed, listener, conn, mutex>>

\* Subscriber::unsubscribe returns Ok(()) after the loop.
ClientUnsubscribeReturns ==
    /\ client.pc = "wait"
    /\ client.call = "Subscriber::unsubscribe"
    /\ client.num = 0
    /\ client' = [client EXCEPT !.pc = "idle", !.result = Some(Ok(<<>>))]
    /\ UNCHANGED <<store, background_task, now, purge_task, handlers, server,
                   last, prev, msgs, published, acked, owed, listener, conn, mutex>>

\* Subscriber::next_message between two calls: the next frame is read as a message.
ClientNextMessage ==
    /\ client.pc = "idle"
    /\ client.subscriber
    /\ client.inbox # <<>>
    /\ LET r == NextMessage(Head(client.inbox))
       IN  client' = [client EXCEPT !.pc = IF r.ok THEN "idle" ELSE "failed",
                                    !.call = "Subscriber::next_message",
                                    !.channels = <<>>,
                                    !.inbox = Tail(@),
                                    !.response = Some(Head(client.inbox)),
                                    !.result = Some(r)]
    /\ UNCHANGED <<store, background_task, now, purge_task, handlers, server,
                   last, prev, msgs, published, acked, owed, listener, conn, mutex>>

\* The Handler of the observed connection goes on with its subscribe loop, its
\* unsubscribe loop, or forwards a message, and the frame it writes is on the way.
ObservedSubscribeLoop ==
    /\ SubscribeLoop(Observed)
    /\ Deliver(<<last'.reply[Len(last'.reply)]>>)
    /\ UNCHANGED conn

ObservedUnsubscribeLoop ==
    /\ UnsubscribeLoop(Observed)
    /\ Deliver(<<last'.reply[Len(last'.reply)]>>)
    /\ UNCHANGED conn

ObservedForward(n) ==
    /\ ForwardMessage(Observed, n)
    /\ LET c == handlers[Observed].subscriptions[n].name
       IN  Deliver(<<msgs'[c][Len(msgs'[c])].frame>>)
    /\ UNCHANGED conn

\* ------------------------------------------------------ specifications
Expirer == PurgeCheck \/ PurgeRun \/ PurgeWakeTimer \/ PurgeWakeNotified

\* The connections that the key-value scenarios open.
KvConns == {"c1", "c2"}

Lifecycle(C) ==
    \/ ShutdownSignal \/ GuardDrop \/ GuardNotify
    \/ \E i \in C : Accept(i) \/ PeerClosed(i) \/ HandlerShutdown(i)

KeyValue(C) ==
    \E i \in C :
        \/ \E k \in Keys : HandleGet(i, k) \/ HandleDel(i, k)
        \/ \E k \in Keys, v \in Values, e \in {None} \cup {Some(d) : d \in Durations} :
               HandleSet(i, k, v, e)
        \/ SetNotify(i)

\* The SUBSCRIBE and UNSUBSCRIBE requests of connection i, their channels drawn
\* from the lists L.
Requests(i, L) ==
    \E chans \in L :
        \/ HandleSubscribe(i, chans)
        \/ SubHandleSubscribe(i, chans)
        \/ SubHandleUnsubscribe(i, chans)

\* The steps of a connection in subscriber mode.
Subscriber(i, L) ==
    \/ Requests(i, L)
    \/ \E n \in 1..Cardinality(Channels) : Forward(i, n)
    \/ SubscribeNext(i) \/ UnsubscribeNext(i) \/ WriteFailed(i)

\* The requests of a connection that publishes payloads of M.
Publisher(i, M) == \E c \in Channels, m \in M : HandlePublish(i, c, m)

PubSub(C) ==
    \E i \in C :
        \/ Publisher(i, Messages)
        \/ Subscriber(i, ChannelLists)
        \/ \E chans \in ChannelLists : HandleUnsubscribe(i, chans)

\* The frames of a connection that are no GET, SET, DEL, PUBLISH, SUBSCRIBE or
\* UNSUBSCRIBE of the steps above.
Frames(C) ==
    \E i \in C, frame \in RequestFrames :
        \/ HandlePing(i, frame) \/ HandleUnknown(i, frame) \/ HandleInvalid(i, frame)
        \/ SubHandleOther(i, frame) \/ SubHandleInvalid(i, frame)

Next ==
    \/ Tick \/ Expirer \/ Lifecycle(Conns) \/ KeyValue(Conns) \/ PubSub(Conns)
    \/ Frames(Conns)
    \/ AcquirePermit \/ AcceptErr \/ AcceptRetry \/ MainReturns
    \/ \E i \in Conns : AcceptOk(i)

Spec == Init /\ [][Next]_vars

\* The key-value side: GET, SET and DEL against the Store and its expirer.
NextKv == Tick \/ Expirer \/ (\E i \in KvConns : Accept(i)) \/ KeyValue(KvConns)

SpecKv == Init /\ [][NextKv]_vars

\* The expirer and one connection under fair scheduling: the clock advances, the
\* expirer task and a Handler that holds no lock are scheduled again.
ExpiryConns == {"c1"}

NextExpiry == Tick \/ Expirer \/ (\E i \in ExpiryConns : Accept(i)) \/ KeyValue(ExpiryConns)

FairSpecExpiry ==
    /\ Init
    /\ [][NextExpiry]_vars
    /\ WF_vars(Tick)
    /\ WF_vars(Expirer)
    /\ \A i \in ExpiryConns : WF_vars(SetNotify(i))

\* Channel lists of at most one name.
ShortLists == {chans \in ChannelLists : Len(chans) <= 1}

\* Message delivery: the observed connection subscribes and unsubscribes one
\* channel at a time and may disconnect, its peer publishes.
PubSubConns == {"c1", "c2"}

NextPubSub ==
    \/ \E i \in PubSubConns : Accept(i)
    \/ PeerClosed("c1")
    \/ Requests("c1", ShortLists)
    \/ UnsubscribeNext("c1")
    \/ \E n \in 1..Cardinality(Channels) : Forward("c1", n)
    \/ Publisher("c2", Messages)

SpecPubSub == Init /\ [][NextPubSub]_vars

\* Message delivery under fair scheduling, with the server's shutdown: a Handler
\* that can go on does, and the select of Subscribe::apply, which picks among its
\* ready branches at random, does not pass over a ready message for ever.
NextDelivery ==
    \/ ShutdownSignal
    \/ \E i \in PubSubConns : Accept(i) \/ PeerClosed(i) \/ HandlerShutdown(i)
    \/ Requests("c1", ShortLists)
    \/ UnsubscribeNext("c1")
    \/ \E n \in 1..Cardinality(Channels) : Forward("c1", n)
    \/ Publisher("c2", {"m1"})

FairSpecDelivery ==
    /\ Init
    /\ [][NextDelivery]_vars
    /\ WF_vars(UnsubscribeNext("c1"))
    /\ \A n \in 1..Cardinality(Channels) : SF_vars(Forward("c1", n))

\* Acknowledgments: the observed connection subscribes and unsubscribes with
\* lists of up to two names, its peer one channel at a time.
NextAcks ==
    \/ \E i \in PubSubConns : Accept(i) \/ PeerClosed(i)
    \/ Requests("c1", ChannelLists)
    \/ SubscribeNext("c1") \/ UnsubscribeNext("c1") \/ WriteFailed("c1")
    \/ Requests("c2", ShortLists)
    \/ UnsubscribeNext("c2")

\* Subscribe::apply and handle_command go on from one write to the next.
FairSpecAcks ==
    /\ Init
    /\ [][NextAcks]_vars
    /\ WF_vars(SubscribeNext("c1"))
    /\ WF_vars(UnsubscribeNext("c1"))

\* Receiver counts: the observed connection publishes, its two peers subscribe
\* and unsubscribe one channel at a time and disconnect.
CountConns == {"c1", "c2", "c3"}

NextCount ==
    \/ \E i \in CountConns : Accept(i) \/ PeerClosed(i)
    \/ Publisher("c1", {"m1"})
    \/ \E i \in {"c2", "c3"} : Requests(i, ShortLists) \/ UnsubscribeNext(i)

SpecCount == Init /\ [][NextCount]_vars

\* Requests as they arrive: one connection sends frames, commands and others,
\* in normal mode and in subscriber mode, and may disconnect.
NextCommands ==
    \/ Accept("c1") \/ PeerClosed("c1")
    \/ \E frame \in RequestFrames :
           \/ HandleRequest("c1", frame)
           \/ HandleInvalid("c1", frame)
           \/ SubHandleRequest("c1", frame)
    \/ SubscribeNext("c1") \/ UnsubscribeNext("c1")

SpecCommands == Init /\ [][NextCommands]_vars

\* Graceful shutdown under fair scheduling: one connection subscribes, the other
\* publishes in normal mode; the Handlers end on the shutdown signal only. A
\* Handler that can go on does; the selects of Handler::run and Subscribe::apply,
\* which pick among their ready branches at random, do not pass over the ready
\* shutdown branch for ever; server::run goes on once its recv() completes.
ShutdownConns == {"c1", "c2"}

NextShutdown ==
    \/ ShutdownSignal \/ GuardDrop \/ GuardNotify \/ MainReturns
    \/ \E i \in ShutdownConns : Accept(i) \/ HandlerShutdown(i)
    \/ Requests("c1", ShortLists)
    \/ UnsubscribeNext("c1")
    \/ \E n \in 1..Cardinality(Channels) : Forward("c1", n)
    \/ Publisher("c2", {"m1"})

FairSpecShutdown ==
    /\ Init
    /\ [][NextShutdown]_vars
    /\ \A i \in ShutdownConns : SF_vars(HandlerShutdown(i))
    /\ WF_vars(UnsubscribeNext("c1"))
    /\ WF_vars(GuardDrop)
    /\ WF_vars(GuardNotify)

\* The accept loop with more clients than permits: accepts succeed or fail,
\* Handlers end with Ok (the peer closes, the shutdown signal) or with an error
\* (a frame that is no request), and the server shuts down on the signal or when
\* Listener::run gives up.
NextListener ==
    \/ AcquirePermit \/ AcceptErr \/ AcceptRetry
    \/ \E i \in Conns :
           \/ AcceptOk(i) \/ PeerClosed(i) \/ HandlerShutdown(i)
           \/ HandleInvalid(i, Simple(<<"a">>))
    \/ ShutdownSignal \/ GuardDrop \/ GuardNotify \/ MainReturns

SpecListener == Init /\ [][NextListener]_vars

\* The frames a peer sends: every kind, among them an empty Bulk, a Bulk whose
\* payload is "\r\n" and a number of two digits.
WireFrames ==
    {Simple(<<"O", "K">>), Error(<<"e">>), Integer(10), Null, Bulk(<<>>), Bulk(CRLF),
     Array(<<Bulk(<<"a">>), Integer(1)>>)}

\* The most frames one peer sends.
MaxFrames == 2

FrameLists == UNION {[1..n -> WireFrames] : n \in 0..MaxFrames}

\* Reading frames: the peer writes a list of frames and closes; the bytes arrive
\* in chunks of any size.
InitFraming ==
    /\ InitServer
    /\ conn \in {ConnectionOf(WriteAll(frames), frames) : frames \in FrameLists}

NextFraming == ReadFrame \/ ReadEof \/ \E n \in 1..Len(conn.stream) : ReadBuf(n)

SpecFraming == InitFraming /\ [][NextFraming]_vars

\* The frames written and read back: those a peer sends, arrays that are empty
\* or hold a Null, and a Simple and an Error whose string holds "\r\n", as the
\* Error of Unknown::apply does when the name of the command does.
RoundTripFrames ==
    WireFrames \cup
    {Simple(<<>>), Array(<<>>), Array(<<Null, Simple(<<"a">>)>>),
     Simple(<<"a", "\r", "\n">>),
     Error(<<"e", "\r", "\n", "+", "O", "K">>)}

\* One frame is written by write_frame and read by the peer's read_frame.
InitRoundTrip ==
    /\ InitServer
    /\ conn \in {ConnectionOf(write_frame(frame).val, <<frame>>) :
                    frame \in RoundTripFrames}

SpecRoundTrip == InitRoundTrip /\ [][NextFraming]_vars

\* Byte streams none of which starts with the encoding of a frame: a wrong first
\* byte, an integer or a length that is no decimal number, a null Bulk other than
\* "$-1\r\n", a Bulk payload not followed by "\r\n", and streams that end early.
InvalidStreams ==
    {<<"a", "\r", "\n">>,
     <<":", "x", "\r", "\n">>,
     <<":", "1", "x", "\r", "\n">>,
     <<"$", "x", "\r", "\n">>,
     <<"*", "x", "\r", "\n">>,
     <<"*", "1", "\r", "\n", "?", "\r", "\n">>,
     <<"$", "-", "2", "\r", "\n">>,
     <<"$", "-", "1", "0", "\r", "\n">>,
     <<"$", "-", "1", "x", "y">>,
     <<"$", "1", "\r", "\n", "a", "X", "Y">>,
     <<"$", "1", "\r", "\n", "a", "b", "\r", "\n">>,
     <<"$", "1", "\r", "\n", "a">>,
     <<"+", "O", "K">>}

\* A peer sends bytes that are no frame and closes.
InitDecode ==
    /\ InitServer
    /\ conn \in {ConnectionOf(stream, <<>>) : stream \in InvalidStreams}

SpecDecode == InitDecode /\ [][NextFraming]_vars

\* ------------------------------------------------------- key-value claims
\* The observed connection starts a request in this step.
ObservedBegins == (last' # last \/ prev' # prev) /\ last' # Overwritten

\* The expirer's purge_expired_keys runs in this step.
ExpirerPurges == purge_task.pc = "purge" /\ purge_task'.pc # "purge"

\* A client that calls get on the observed connection, while another connection
\* sets and deletes keys and the expirer purges them.
ClientWriters == {"c2"}

NextClientGet ==
    \/ Tick \/ Expirer
    \/ (\E i \in {Observed} \cup ClientWriters : Accept(i))
    \/ (\E i \in ClientWriters :
          \/ \E k \in Keys, v \in Values, e \in {None} \cup {Some(d) : d \in Durations} :
                 HandleSet(i, k, v, e)
          \/ SetNotify(i)
          \/ \E k \in Keys : HandleDel(i, k))
    \/ (\E k \in Keys : ClientGet(k))
    \/ ClientGetReturns

SpecClientGet == Init /\ [][NextClientGet]_vars

\* A client that subscribes, unsubscribes and reads messages on the observed
\* connection, while another connection publishes.
NextSubscriber ==
    \/ (\E i \in {Observed} \cup ClientWriters : Accept(i))
    \/ (\E chans \in ChannelLists \ {<<>>} :
            ClientSubscribe(chans) \/ SubscriberSubscribe(chans))
    \/ (\E chans \in ChannelLists : SubscriberUnsubscribe(chans))
    \/ ClientSubscribeRead \/ ClientUnsubscribeRead \/ ClientUnsubscribeReturns
    \/ ClientNextMessage
    \/ ObservedSubscribeLoop \/ ObservedUnsubscribeLoop
    \/ (\E n \in 1..Cardinality(Channels) : ObservedForward(n))
    \/ (\E i \in ClientWriters : Publisher(i, {"m1"}))

SpecSubscriber == Init /\ [][NextSubscriber]_vars

\* Requests pipelined on one connection in normal mode: the client writes a list of
\* requests and closes; the bytes arrive byte by byte or all that is left at once.
PipelineRequests ==
    {Cmd(<<<<"G", "E", "T">>, <<"a">>>>),
     Cmd(<<<<"S", "e", "t">>, <<"a">>, <<"b">>, <<"P", "X">>, <<"1">>>>),
     Cmd(<<<<"D", "E", "L">>, <<"a">>>>), Cmd(<<<<"P", "i", "n", "g">>>>),
     Cmd(<<<<"P", "i", "n", "g">>, <<"a">>>>),
     Cmd(<<<<"P", "U", "B", "L", "I", "S", "H">>, <<"a">>, <<"b">>>>),
     Cmd(<<<<"F", "O", "O">>, <<"a">>>>)}

PipelineLists == UNION {[1..n -> PipelineRequests] : n \in 0..MaxFrames}

InitPipeline ==
    /\ InitServer
    /\ conn \in {ConnectionOf(WriteAll(frames), frames) : frames \in PipelineLists}

NextPipeline ==
    \/ Accept(Observed)
    \/ RunReadFrame \/ RunReadEof
    \/ (\E n \in {1, Len(conn.socket)} : RunReadBuf(n))
    \/ RunApply \/ RunSetNotify \/ RunClosed

SpecPipeline == InitPipeline /\ [][NextPipeline]_vars

\* Error isolation: the observed connection subscribes, unsubscribes and is sent
\* messages; a second connection sets a key, publishes, subscribes and fails in
\* every way a Handler can fail; a third connection is accepted at any time.
IsolationLists == {<<"a">>, <<"a", "b">>}

Failing == "c2"

NextIsolation ==
    \/ AcquirePermit
    \/ (\E i \in {Observed, Failing, "c3"} : AcceptOk(i))
    \/ Requests(Observed, IsolationLists)
    \/ SubscribeNext(Observed) \/ UnsubscribeNext(Observed)
    \/ (\E n \in 1..Cardinality(Channels) : Forward(Observed, n))
    \/ HandleSet(Failing, "k1", "v1", None)
    \/ HandlePublish(Failing, "a", "m1")
    \/ HandleSubscribe(Failing, <<"a", "b">>) \/ SubscribeNext(Failing)
    \/ (\E frame \in {Simple(<<"a">>), Cmd(<<<<"G", "E", "T">>>>)} :
            HandleInvalid(Failing, frame) \/ SubHandleInvalid(Failing, frame))
    \/ HandleUnsubscribe(Failing, <<>>)
    \/ WriteFailed(Failing)

SpecIsolation == Init /\ [][NextIsolation]_vars

\* Requests that cannot be executed: the client writes a SET or nothing, then any
\* one frame, then a GET or nothing; the bytes arrive in one read or one by one.
RejectLists ==
    {pre \o <<frame>> \o post :
        pre \in {<<>>, <<Cmd(<<<<"S", "e", "t">>, <<"a">>, <<"b">>>>)>>},
        frame \in RequestFrames,
        post \in {<<>>, <<Cmd(<<<<"G", "E", "T">>, <<"a">>>>)>>}}

InitRejects ==
    /\ InitServer
    /\ conn \in {ConnectionOf(WriteAll(frames), frames) : frames \in RejectLists}

NextRejects ==
    \/ Accept(Observed)
    \/ RunReadFrame \/ RunReadEof
    \/ (\E n \in {1, Len(conn.socket)} : RunReadBuf(n))
    \/ RunApply \/ RunSetNotify \/ RunClosed
    \/ SubscribeNext(Observed)

SpecRejects == InitRejects /\ [][NextRejects]_vars

\* Publishers and subscribers at the Store mutex: Db::publish is followed from
\* lock() to its return, every other operation of Db waits for the guard, and a
\* receiver takes a message from its broadcaster without it.
MutexConns == {"c1", "c2", "c3"}

NextMutex ==
    \/ \E i \in MutexConns : Accept(i)
    \/ \E i \in MutexConns, c \in Channels : DbPublishLock(i, c, "m1")
    \/ \E i \in MutexConns : DbPublishSend(i) \/ DbPublishReturn(i)
    \/ \E i \in MutexConns, c \in Channels : Locked(HandleSubscribe(i, <<c>>))
    \/ \E i \in MutexConns, k \in {"k1"}, v \in {"v1"} :
          Locked(HandleSet(i, k, v, None)) \/ Locked(HandleGet(i, k))
    \/ \E i \in MutexConns, n \in 1..2 : Forward(i, n)

SpecMutex == Init /\ [][NextMutex]_vars

\* Shutdown while requests are handled: the client writes up to MaxFrames SET
\* and GET requests and then a SUBSCRIBE or nothing, and the shutdown signal
\* comes at any moment.
ShutdownRequests ==
    {Cmd(<<<<"S", "e", "t">>, <<"a">>, <<"b">>, <<"P", "X">>, <<"1">>>>),
     Cmd(<<<<"G", "E", "T">>, <<"a">>>>)}

ShutdownLists ==
    {pre \o post :
        pre \in UNION {[1..n -> ShutdownRequests] : n \in 0..MaxFrames},
        post \in {<<>>, <<Cmd(<<<<"s", "u", "b", "s", "c", "r", "i", "b", "e">>,
                               <<"a">>, <<"b">>>>)>>}}

InitShutdownRequest ==
    /\ InitServer
    /\ conn \in {ConnectionOf(WriteAll(frames), frames) : frames \in ShutdownLists}

NextShutdownRequest ==
    \/ Accept(Observed)
    \/ RunReadFrame \/ RunReadEof
    \/ (\E n \in {1, Len(conn.socket)} : RunReadBuf(n))
    \/ RunApply \/ RunSetNotify \/ RunSubscribeLoop \/ RunClosed
    \/ RunShutdownSignal \/ RunShutdown

SpecShutdownRequest == InitShutdownRequest /\ [][NextShutdownRequest]_vars

\* Subscriber mode to its end: the requests of SpecCommands on one connection,
\* with the shutdown signal at any moment.
NextSubscriberMode ==
    \/ NextCommands
    \/ ShutdownSignal
    \/ HandlerShutdown(Observed)

SpecSubscriberMode == Init /\ [][NextSubscriberMode]_vars

\* The expirer next to SET, DEL and the drop of the DbDropGuard: two connections
\* set and delete keys, the clock advances, the expirer purges, sleeps and waits,
\* and the server shuts down at any moment.
WakeupConns == {"c1", "c2"}

NextWakeup ==
    \/ Tick \/ Expirer
    \/ ShutdownSignal \/ GuardDrop \/ GuardNotify
    \/ \E i \in WakeupConns : Accept(i) \/ HandlerShutdown(i)
    \/ \E i \in WakeupConns :
          \/ \E k \in Keys : HandleDel(i, k)
          \/ \E k \in Keys, e \in {None} \cup {Some(d) : d \in Durations} :
                 HandleSet(i, k, "v1", e)
          \/ SetNotify(i)

SpecWakeup == Init /\ [][NextWakeup]_vars

\* The drop of the DbDropGuard under fair scheduling: one connection sets keys
\* with and without deadlines, the clock advances, the server shuts down at any
\* moment. The expirer task is scheduled again and again, and shutdown_purge_task,
\* once it has set the flag, goes on to notify_one.
NextGuardDrop ==
    \/ Tick \/ Expirer
    \/ ShutdownSignal \/ GuardDrop \/ GuardNotify
    \/ Accept(Observed) \/ HandlerShutdown(Observed)
    \/ \E k \in Keys, e \in {None} \cup {Some(d) : d \in Durations} :
           HandleSet(Observed, k, "v1", e)
    \/ SetNotify(Observed)

FairSpecGuardDrop ==
    /\ Init
    /\ [][NextGuardDrop]_vars
    /\ WF_vars(Expirer)
    /\ WF_vars(GuardNotify)


\* C1: read-your-writes. When SET k v was answered OK and the next request of the
\* same connection is GET k, no other connection has set or deleted k in between
\* (the record of the SET is not Overwritten) and the deadline of the SET, if any,
\* has not passed, the GET is answered Bulk v.
ReadYourWrites ==
    [][(/\ last.op = "set"
        /\ last.reply = <<Simple("OK")>>
        /\ last'.op = "get"
        /\ last'.key = last.key
        /\ (last.deadline = None \/ last.deadline[1] > now))
       => last'.reply = <<Bulk(last.val)>>]_vars

\* C1 witness: a GET that follows a SET of the same key, a SET with a deadline,
\* was answered with a value.
ReadYourWritesWitness ==
    /\ prev.op = "set"
    /\ prev.ttl
    /\ last.op = "get"
    /\ last.key = prev.key
    /\ last.reply \in {<<Bulk(v)>> : v \in Values}

\* C2: DEL k replies Integer 1 and removes k when k is present, replies Integer 0
\* and leaves the store as it is when k is absent; a GET k or a second DEL k that
\* follows a DEL k with no write of k in between (the record of the DEL is not
\* Overwritten) replies Null, respectively 0.
DelSemantics ==
    [][/\ (last'.op = "del" /\ ObservedBegins) =>
            /\ last'.reply = <<Integer(IF last'.key \in DOMAIN store.entries THEN 1 ELSE 0)>>
            /\ last'.key \notin DOMAIN store'.entries
            /\ last'.key \notin DOMAIN store.entries => store' = store
       /\ (last.op = "del" /\ ObservedBegins /\ last'.key = last.key) =>
            /\ last'.op = "get" => last'.reply = <<Null>>
            /\ last'.op = "del" => last'.reply = <<Integer(0)>>]_vars

\* C2 witness: the observed connection set a key and then deleted it; the DEL was
\* answered 1 and the key is gone.
DelSemanticsWitness ==
    /\ prev.op = "set"
    /\ last.op = "del"
    /\ last.key = prev.key
    /\ last.reply = <<Integer(1)>>
    /\ last.key \notin DOMAIN store.entries

\* The store holds the entry that Store::set numbered n.
Holds(n) == \E k \in DOMAIN store.entries : store.entries[k].id = n

\* The store holds entry n and the entry carries a deadline.
HoldsWithDeadline(n) ==
    \E k \in DOMAIN store.entries :
        store.entries[k].id = n /\ store.entries[k].expires_at # None

\* C3: expiry eventually happens. An entry stored with a deadline is eventually
\* gone from the store: removed by the expirer once the deadline has passed,
\* unless the key is written again before.
ExpiryEventuallyHappens ==
    \A n \in 0..(MaxId - 1) : HoldsWithDeadline(n) ~> ~Holds(n)

\* C3 witness: the latest request of the observed connection is a SET with a
\* deadline that was answered OK, no connection has written the key since, and
\* the key is gone.
ExpiryEventuallyHappensWitness ==
    /\ last.op = "set"
    /\ last.deadline # None
    /\ last.reply = <<Simple("OK")>>
    /\ last.key \notin DOMAIN store.entries
    /\ now >= last.deadline[1]

\* C4, in every state: the key of the observed connection's latest SET holds the
\* value of that SET as long as no connection writes the key again and the
\* deadline of that SET, if it has one, has not passed.
SetKeepsValue ==
    (last.op = "set" /\ (last.deadline = None \/ last.deadline[1] > now)) =>
        StoreGet(store, last.key) = Some(last.val)

\* C4, in every run of the expirer: a key is removed only when the entry the key
\* holds now carries a deadline and that deadline has passed.
PurgesOnlyExpired ==
    ExpirerPurges =>
        \A k \in DOMAIN store.entries :
            k \notin DOMAIN store'.entries =>
                /\ store.entries[k].expires_at # None
                /\ store.entries[k].expires_at[1] <= now

\* C4: a SET discards the earlier time-to-live of the key. After a SET without
\* an option the expirer never removes the key and a GET keeps finding the new
\* value, whatever deadline the key carried before; after a SET with a new
\* deadline the key is removed on the new deadline only.
SetDiscardsEarlierTtl == []SetKeepsValue /\ [][PurgesOnlyExpired]_vars

\* C4 witness: SET k with a deadline, then SET k without an option; the clock
\* is past every deadline, the expirer has run and waits, and k is still there.
SetDiscardsEarlierTtlWitness ==
    /\ prev.op = "set"
    /\ prev.ttl
    /\ last.op = "set"
    /\ last.key = prev.key
    /\ last.deadline = None
    /\ now = MaxTime
    /\ purge_task.pc = "wait"
    /\ StoreGet(store, last.key) = Some(last.val)

\* --------------------------------------------------------- pub/sub claims
\* The observed connection's Handler and its subscription map.
Obs == handlers[Observed]

ObsSubscribed == Subscribed(Obs.subscriptions)

\* A message frame for channel c is written to the observed connection in this step.
MessageWritten(c) == msgs'[c] # msgs[c]

\* An acknowledgment is written to the observed connection in this step.
AckWritten == ObservedBegins \/ last'.reply # last.reply

\* The channel named by an acknowledgment frame and the count it carries.
AckChannel(frame) == frame.val[2].val

AckCount(frame) == frame.val[3].val

\* C5: pub/sub delivery. A message published on a channel after the observed
\* connection was sent its subscribe acknowledgment for it is eventually written
\* to the connection, unless the connection unsubscribes from the channel,
\* disconnects or lags, or the server shuts down.
DeliveryEventually ==
    \A c \in Channels, p \in 0..(MaxPos - 1) :
        ([chan |-> c, pos |-> p] \in owed)
        ~> ([chan |-> c, pos |-> p] \notin owed \/ server # "running")

\* C5 witness: a message is due to the observed connection, which is still
\* subscribed to its channel with a receiver that starts after the message.
DeliveryLost ==
    \E x \in owed :
        /\ server = "running"
        /\ AtSelect(Observed)
        /\ \E n \in 1..Len(Obs.subscriptions) :
               Obs.subscriptions[n].name = x.chan /\ Obs.subscriptions[n].next > x.pos

\* C6, in every state: the acknowledgments written so far for a SUBSCRIBE name
\* the requested channels in the requested order, and the channels still to be
\* acknowledged are the rest of the request.
SubscribeAcksInOrder ==
    (last.op = "subscribe" /\ Obs.pc = "subscribe") =>
        /\ Len(last.reply) <= Len(last.chans)
        /\ Obs.channels = SubSeq(last.chans, Len(last.reply) + 1, Len(last.chans))
        /\ \A j \in 1..Len(last.reply) :
               /\ last.reply[j].val[1] = Bulk("subscribe")
               /\ AckChannel(last.reply[j]) = last.chans[j]

\* C6, in every step that writes a subscribe acknowledgment: the channel is added
\* to the connection's subscriptions and the count is the number of distinct
\* channels the connection is subscribed to after that.
SubscribeAckCounts ==
    (last'.op = "subscribe" /\ AckWritten) =>
        LET frame == last'.reply[Len(last'.reply)]
            c == last'.chans[Len(last'.reply)]
        IN  /\ Subscribed(handlers'[Observed].subscriptions) = ObsSubscribed \cup {c}
            /\ frame = make_subscribe_frame(c, Cardinality(ObsSubscribed \cup {c}))

\* C6: SUBSCRIBE with k channels is answered with exactly k acknowledgments, in
\* request order, each carrying the connection's own number of distinct
\* subscriptions after the channel is added; all k are written unless the
\* connection ends first.
SubscribeAcks ==
    /\ []SubscribeAcksInOrder
    /\ [][SubscribeAckCounts]_vars
    /\ (last.op = "subscribe") ~>
           (Obs.pc # "subscribe" \/ Len(last.reply) = Len(last.chans))

\* C6 witness: SUBSCRIBE with two different channels was answered with two
\* acknowledgments, the second with count 2, while the peer holds a subscription
\* of its own.
SubscribeAcksWitness ==
    /\ last.op = "subscribe"
    /\ Len(last.chans) = 2
    /\ last.chans[1] # last.chans[2]
    /\ Len(last.reply) = 2
    /\ AckCount(last.reply[2]) = 2
    /\ handlers["c2"].subscriptions # <<>>

\* C7: no message frame for a channel is written to the observed connection
\* while the latest acknowledgment it was sent for that channel is an
\* unsubscribe acknowledgment.
NoMessageAfterUnsubscribe ==
    [][\A c \in Channels : MessageWritten(c) => acked[c] # "unsub"]_vars

\* C7 witness: a message was accepted on a channel for the observed connection,
\* the connection then unsubscribed and was never written a frame for it.
NoMessageAfterUnsubscribeWitness ==
    \E c \in Channels :
        /\ acked[c] = "unsub"
        /\ published[c] # <<>>
        /\ msgs[c] = <<>>
        /\ last.op = "unsubscribe"
        /\ AtSelect(Observed)

\* C8, in every step that writes an acknowledgment of an UNSUBSCRIBE without
\* arguments: the channel was subscribed and is no more, and the count is the
\* number of subscriptions that remain; the first step lists every subscribed
\* channel, each later step takes one off the list.
UnsubscribeAllStep ==
    (last'.op = "unsubscribe" /\ last'.chans = <<>> /\ AckWritten /\ Obs.pc = "subscribe") =>
        LET after == handlers'[Observed]
        IN  IF last'.reply = <<>>
            THEN ObsSubscribed = {} /\ ObservedBegins
            ELSE LET frame == last'.reply[Len(last'.reply)]
                 IN  /\ frame.val[1] = Bulk("unsubscribe")
                     /\ AckChannel(frame) \in ObsSubscribed
                     /\ Subscribed(after.subscriptions) = ObsSubscribed \ {AckChannel(frame)}
                     /\ AckCount(frame) = Cardinality(Subscribed(after.subscriptions))
                     /\ {after.unsub[j] : j \in 1..Len(after.unsub)}
                            = Subscribed(after.subscriptions)
                     /\ Len(after.unsub) = Len(after.subscriptions)

\* C8, in every state where the UNSUBSCRIBE without arguments is done: nothing is
\* subscribed, and the counts of the acknowledgments go down to 0.
UnsubscribeAllDone ==
    (last.op = "unsubscribe" /\ last.chans = <<>> /\ AtSelect(Observed)) =>
        /\ Obs.subscriptions = <<>>
        /\ \A j \in 1..Len(last.reply) : AckCount(last.reply[j]) = Len(last.reply) - j

\* C8: in subscriber mode UNSUBSCRIBE without arguments removes every channel the
\* connection is subscribed to and writes one acknowledgment per channel, each
\* with the number of subscriptions remaining, the last with 0; all are written
\* unless the connection ends first.
UnsubscribeAll ==
    /\ [][UnsubscribeAllStep]_vars
    /\ []UnsubscribeAllDone
    /\ (last.op = "unsubscribe") ~> (Obs.pc # "subscribe" \/ Obs.unsub = <<>>)

\* C8 witness: UNSUBSCRIBE without arguments was answered with two
\* acknowledgments, the last with count 0, and nothing is subscribed.
UnsubscribeAllWitness ==
    /\ last.op = "unsubscribe"
    /\ last.chans = <<>>
    /\ Len(last.reply) = 2
    /\ AckCount(last.reply[2]) = 0
    /\ AtSelect(Observed)
    /\ Obs.subscriptions = <<>>

\* C9: PUBLISH replies the number of connections subscribed to the channel when
\* the message is sent: 0 when none is, whatever was subscribed before.
PublishCountsSubscribers ==
    [][(last'.op = "publish" /\ (ObservedBegins \/ published' # published)) =>
          last'.reply = <<Integer(Cardinality(Subscribers(last'.key)))>>]_vars

\* C9 witness: a PUBLISH was answered 2 with both peers subscribed to its channel.
PublishCountsSubscribersWitness ==
    /\ last.op = "publish"
    /\ last.reply = <<Integer(2)>>
    /\ Subscribers(last.key) = {"c2", "c3"}

\* C10: a message frame for channel c is written to the observed connection only
\* when the connection is subscribed to c, its payload is the one published on c
\* at the position it stands for, and no earlier frame stood for that position.
ChannelIsolation ==
    [][\A c \in Channels : MessageWritten(c) =>
          LET e == msgs'[c][Len(msgs'[c])]
          IN  /\ msgs'[c] = Append(msgs[c], e)
              /\ c \in ObsSubscribed
              /\ e.pos < Len(published[c])
              /\ e.frame = make_message_frame(c, published[c][e.pos + 1])
              /\ \A j \in 1..Len(msgs[c]) : msgs[c][j].pos < e.pos
              /\ \A d \in Channels \ {c} : msgs'[d] = msgs[d]]_vars

\* C10 witness: frames were written for both channels, the first of each with
\* the payload published on its channel, and the two payloads differ.
ChannelIsolationWitness ==
    /\ \A c \in Channels : msgs[c] # <<>> /\ msgs[c][1].pos = 0
    /\ published["a"][1] # published["b"][1]

\* --------------------------------------------------------- request claims
\* The names that Command::from_frame knows.
RecognizedNames == {"get", "set", "del", "ping", "publish", "subscribe", "unsubscribe"}

\* The frame is an Array that starts with a string.
NamedRequest(frame) ==
    /\ frame.type = "Array"
    /\ frame.val # <<>>
    /\ frame.val[1].type \in {"Simple", "Bulk"}

\* The first element of a request, lowercased.
FirstName(frame) == Str(ToLowercase(frame.val[1].val))

\* The observed connection's Handler is handed the frame in this step.
ObservedReads(frame) == ObservedBegins /\ last'.frame = Some(frame)

\* C11: in subscriber mode every well-formed command other than SUBSCRIBE and
\* UNSUBSCRIBE is answered with Error "err unknown command '<lowercased name>'"
\* and with nothing else; the Store with its entries, expiration index and
\* channels is left as it is, nothing is published or forwarded, and the Handler
\* stays in subscriber mode with the subscriptions it had.
SubscriberRejectsOthers ==
    [][\A frame \in RequestFrames :
          (/\ ObservedReads(frame)
           /\ Obs.pc = "subscribe"
           /\ FromFrame[frame].ok
           /\ FirstName(frame) \notin {"subscribe", "unsubscribe"})
          => /\ last'.reply = <<Error("err unknown command '" \o FirstName(frame) \o "'")>>
             /\ Str(frame.val[1].val) = "Set" =>
                    last'.reply = <<Error("err unknown command 'set'")>>
             /\ Str(frame.val[1].val) = "Ping" =>
                    last'.reply = <<Error("err unknown command 'ping'")>>
             /\ store' = store
             /\ handlers' = handlers
             /\ published' = published
             /\ msgs' = msgs]_vars

\* C11 witness: the observed connection holds a key and is subscribed to channel
\* a; its PUBLISH on a, sent in subscriber mode, was answered with the error and
\* nothing was published.
SubscriberRejectsOthersWitness ==
    /\ AtSelect(Observed)
    /\ "a" \in ObsSubscribed
    /\ StoreGet(store, "a") = Some("b")
    /\ last.frame = Some(Cmd(<<<<"P", "U", "B", "L", "I", "S", "H">>, <<"a">>, <<"b">>>>))
    /\ last.reply = <<Error("err unknown command 'publish'")>>
    /\ published["a"] = <<>>
    /\ store.pub_sub["a"][1].pos = 0

\* C12: in normal mode a request whose first element, lowercased, is no name that
\* Command::from_frame knows is answered with Error "err unknown command
\* '<lowercased name>'", whatever follows the name; the Store is left as it is,
\* the Handler goes on, and a GET that follows is answered from the Store.
UnknownCommand ==
    [][/\ \A frame \in RequestFrames :
             (/\ ObservedReads(frame)
              /\ Obs.pc = "run"
              /\ NamedRequest(frame)
              /\ FirstName(frame) \notin RecognizedNames)
             => /\ last'.reply =
                       <<Error("err unknown command '" \o FirstName(frame) \o "'")>>
                /\ Str(frame.val[1].val) = "FOO" =>
                       last'.reply = <<Error("err unknown command 'foo'")>>
                /\ store' = store
                /\ handlers' = handlers
                /\ listener' = listener
       /\ (last.op = "unknown" /\ ObservedBegins /\ last'.op = "get")
              => last'.reply = <<IF last'.key \in DOMAIN store.entries
                                 THEN Bulk(store.entries[last'.key].data) ELSE Null>>]_vars

\* C12 witness: FOO with two fields was answered with the error, and the GET that
\* the connection sent next was answered with the value the key holds.
UnknownCommandWitness ==
    /\ prev.op = "unknown"
    /\ last.op = "get"
    /\ last.reply = <<Bulk("b")>>
    /\ AtRun(Observed)

\* -------------------------------------------------------- shutdown claims
\* The Handler task of connection i is running.
Running(i) == handlers[i].pc \notin {"idle", "done"}

\* C13: graceful shutdown terminates. Once the shutdown future has resolved, every
\* Handler, in normal mode or in subscriber mode, eventually is not running any
\* more, and server::run eventually returns.
GracefulShutdown ==
    /\ \A i \in ShutdownConns : (server # "running") ~> ~Running(i)
    /\ (server # "running") ~> (server = "returned")

\* C13 witness: server::run has returned; of the two Handlers that ran, and that
\* end on the shutdown signal only, one was in subscriber mode.
GracefulShutdownWitness ==
    /\ server = "returned"
    /\ \A i \in ShutdownConns : handlers[i].pc = "done"
    /\ last.op = "subscribe"

\* C14: server::run never returns while a Handler task is running. The completion
\* senders alive are the Listener's own, until server::run drops it, and one clone
\* for each running Handler; the final recv() of server::run has completed only
\* when none is left, so with no Handler running; and once the accept loop has
\* ended no Handler is spawned.
NoReturnBeforeHandlers ==
    /\ [](listener.shutdown_complete_tx =
              Cardinality({i \in Conns : Running(i)})
                  + (IF server = "running" THEN 1 ELSE 0))
    /\ [](server \in {"dropping", "returned"} =>
              /\ listener.shutdown_complete_tx = 0
              /\ \A i \in Conns : ~Running(i))
    /\ [][server # "running" =>
              \A i \in Conns : Running(i)' => Running(i)]_vars

\* C14 witness: the recv() of server::run has completed after the shutdown signal;
\* the Handlers that were spawned, two or more, have all ended.
NoReturnBeforeHandlersWitness ==
    /\ server = "dropping"
    /\ listener.pc = "cancelled"
    /\ Cardinality({i \in Conns : handlers[i].pc = "done"}) > 1

\* ------------------------------------------------------- listener claims
\* The Handler tasks that are running.
RunningHandlers == {i \in Conns : Running(i)}

\* The permits that are held: one by each running Handler task, and one by
\* Listener::run between acquire_owned and the spawn of the Handler.
HeldPermits ==
    Cardinality(RunningHandlers) + (IF listener.pc \in {"accept", "sleep"} THEN 1 ELSE 0)

\* C15: connection limit. At most MAX_CONNECTIONS Handlers run at any moment, and
\* the free permits and the held permits always add up to MAX_CONNECTIONS; a
\* Handler that ends, with Ok or with an error, gives back exactly one permit.
ConnectionLimit ==
    /\ [](Cardinality(RunningHandlers) <= MAX_CONNECTIONS)
    /\ [](listener.limit_conn >= 0)
    /\ [](listener.limit_conn + HeldPermits = MAX_CONNECTIONS)
    /\ [][\A i \in Conns :
              Running(i) /\ ~Running(i)' /\ listener'.pc = listener.pc =>
                  listener'.limit_conn = listener.limit_conn + 1]_vars

\* C15 witness: every permit is held by a running Handler and the Listener waits
\* in acquire_owned, after a Handler has ended with an error and its permit has
\* been handed out again.
ConnectionLimitWitness ==
    /\ Cardinality(RunningHandlers) = MAX_CONNECTIONS
    /\ listener.limit_conn = 0
    /\ listener.pc = "acquire"
    /\ last.op = "invalid"
    /\ \E i \in Conns : handlers[i].pc = "done"

\* The sleeps of one call of Listener::accept in which every attempt fails.
BackoffSchedule == <<1, 2, 4, 8, 16, 32, 64>>

\* C16: Listener::accept sleeps 1, 2, 4, 8, 16, 32 and 64 seconds, in that order,
\* after its failed attempts; the failure after the 64-second sleep returns the
\* error without another sleep and ends the accept loop; a success returns the
\* socket, whose Handler is spawned; the next call starts again at 1 second.
AcceptBackoff ==
    /\ [](/\ Len(listener.slept) <= Len(BackoffSchedule)
          /\ listener.slept = SubSeq(BackoffSchedule, 1, Len(listener.slept)))
    /\ [](listener.pc = "accept" =>
              listener.backoff = 2 ^ Len(listener.slept))
    /\ [](listener.pc = "failed" =>
              listener.slept = BackoffSchedule /\ server # "running")
    /\ [][listener.pc = "accept" /\ listener'.pc # "accept" =>
              \/ /\ listener'.pc = "sleep"
                 /\ listener.slept # BackoffSchedule
                 /\ listener'.slept = Append(listener.slept, listener.backoff)
              \/ /\ listener'.pc = "failed"
                 /\ listener.slept = BackoffSchedule
                 /\ listener'.slept = listener.slept
              \/ /\ listener'.pc = "acquire"
                 /\ \E i \in Conns : ~Running(i) /\ Running(i)'
              \/ listener'.pc = "cancelled"]_vars
    /\ [][listener.pc = "acquire" /\ listener'.pc = "accept" =>
              listener'.slept = <<>> /\ listener'.backoff = 1]_vars

\* C16 witness: Listener::accept has given up after its seven sleeps, in a call
\* that followed a successful one.
AcceptBackoffWitness ==
    /\ listener.pc = "failed"
    /\ listener.slept = BackoffSchedule
    /\ RunningHandlers # {}

\* C17: the process exits with status 0 after a graceful shutdown and with
\* another status when the accept loop has given up.
ExitStatus ==
    /\ listener.exit = Some(0) => listener.pc = "cancelled"
    /\ listener.pc = "failed" => listener.exit # Some(0)

\* C17 witness: main has returned Ok(()), exit status 0, after Listener::run
\* returned the error of its last failed accept.
ExitZeroAfterFailure ==
    /\ listener.pc = "failed"
    /\ listener.slept = BackoffSchedule
    /\ server = "returned"
    /\ listener.exit = Some(0)

\* -------------------------------------------------------- framing claims
\* The bytes of the sent frames that read_frame has not returned yet.
Unread == WriteAll(SubSeq(conn.sent, Len(conn.frames) + 1, Len(conn.sent)))

\* C18: framing is independent of how the bytes arrive. However the bytes of the
\* frames F1..Fn are cut into chunks, read_frame never fails, the frames it has
\* returned are the first of F1..Fn in order, it returns None only after all of
\* them, and each call that returns a frame removes exactly that frame's bytes
\* from the buffer.
FramingIndependent ==
    /\ [](conn.pc # "error")
    /\ [](/\ Len(conn.frames) <= Len(conn.sent)
          /\ conn.frames = SubSeq(conn.sent, 1, Len(conn.frames))
          /\ conn.buffer \o conn.socket = Unread)
    /\ [](conn.pc = "closed" => conn.frames = conn.sent /\ conn.buffer = <<>>)
    /\ [][conn'.frames # conn.frames =>
              LET frame == conn'.frames[Len(conn'.frames)]
                  read == SubSeq(conn.socket, 1, Len(conn.socket) - Len(conn'.socket))
              IN  /\ conn'.frames = Append(conn.frames, frame)
                  /\ conn.buffer \o read = write_frame(frame).val \o conn'.buffer]_vars

\* C18 witness: read_frame has returned None after both frames of the peer, a
\* Bulk with "\r\n" as payload among them; one call found only a part of a
\* frame buffered, another found bytes behind the frame it returned.
FramingIndependentWitness ==
    /\ conn.pc = "closed"
    /\ Len(conn.sent) = MaxFrames
    /\ conn.frames = conn.sent
    /\ Bulk(CRLF) \in {conn.sent[n] : n \in 1..Len(conn.sent)}
    /\ conn.partial
    /\ conn.multi

\* C19: encode-then-decode is the identity. The bytes write_frame writes for a
\* frame are read by read_frame without error as that frame and nothing else,
\* with no byte left over.
RoundTrip ==
    /\ conn.pc # "error"
    /\ Len(conn.frames) <= Len(conn.sent)
    /\ conn.frames = SubSeq(conn.sent, 1, Len(conn.frames))
    /\ conn.frames = conn.sent => conn.buffer \o conn.socket = <<>>

\* C19 witness: the Error frame whose string is e, "\r\n", +OK has been written;
\* the reader has been returned Error e and then Simple OK, and None at the end.
RoundTripBroken ==
    /\ conn.sent = <<Error(<<"e", "\r", "\n", "+", "O", "K">>)>>
    /\ conn.frames = <<Error(<<"e">>), Simple(<<"O", "K">>)>>
    /\ conn.pc = "closed"

\* C20: read_frame never returns a Frame for bytes that are no valid encoding:
\* for each of the invalid streams it returns no frame and does not end with None.
DecodeRejects ==
    /\ conn.frames = <<>>
    /\ conn.pc # "closed"

\* C20 witness: of the bytes $1, "\r\n", a, X, Y, where the payload a is followed
\* by XY, read_frame has returned Bulk a.
BulkWithoutTrailer ==
    /\ conn.stream = <<"$", "1", "\r", "\n", "a", "X", "Y">>
    /\ conn.frames = <<Bulk(<<"a">>)>>
    /\ conn.buffer = <<>>

\* C21: Client::get on a key that does not exist, so that Get::apply has answered
\* Null, returns Ok(None), and the CLI prints (nil) and ends without an error.
GetMissingIsNone ==
    (/\ client.pc = "idle"
     /\ client.call = "Client::get"
     /\ client.response = Some(Null))
    => /\ client.result = Some(Ok(None))
       /\ client.printed = Some("(nil)")
       /\ client.exit = "ok"

\* C21 witness: a get of a key that the Store does not hold has returned the error
\* CommandExecute of the text (nil), and the CLI has printed nothing.
GetMissingIsError ==
    /\ client.pc = "idle"
    /\ client.call = "Client::get"
    /\ last.op = "get"
    /\ last.key \notin DOMAIN store.entries
    /\ client.response = Some(Null)
    /\ client.result = Some(Err(CommandExecute("(nil)")))
    /\ client.printed = None
    /\ client.exit = "error"

\* C22: whenever Subscriber::unsubscribe with an empty channel list has returned, on a
\* Subscriber whose earlier subscribe calls all returned Ok, it has returned Ok and
\* get_subscribed() is empty.
UnsubscribeEmptyOk ==
    (/\ client.pc \in {"idle", "failed"}
     /\ client.call = "Subscriber::unsubscribe"
     /\ client.channels = <<>>)
    => /\ client.result = Some(Ok(<<>>))
       /\ client.subscribed_channels = <<>>

\* C22 witness: after Client::subscribe of the channels a, a has returned the
\* Subscriber, unsubscribe with an empty list has read the one acknowledgment that
\* the server writes, has removed both elements and has returned CommandExecute.
UnsubscribeEmptyFails ==
    /\ client.pc = "failed"
    /\ client.call = "Subscriber::unsubscribe"
    /\ client.channels = <<>>
    /\ client.calls = 2
    /\ client.response = Some(make_unsubscribe_frame("a", 0))
    /\ client.result = Some(Err(CommandExecute("unsubscribe a 0")))
    /\ published = [c \in Channels |-> <<>>]

\* The reply that a request of normal mode is answered with, by its command.
ReplyFits(frame, reply) ==
    LET cmd == FromFrame[frame].val
    IN  CASE cmd.type = "Get" -> reply.type \in {"Bulk", "Null"}
          [] cmd.type = "Set" -> reply = Simple("OK")
          [] cmd.type = "Del" -> reply.type = "Integer"
          [] cmd.type = "Publish" -> reply.type = "Integer"
          [] cmd.type = "Ping" -> reply = PingResponse(cmd.msg)
          [] cmd.type = "Unknown" -> reply = UnknownResponse(cmd.cmd_name)
          [] OTHER -> FALSE

\* The replies written are, one for one and in order, replies to the requests read;
\* only the request being applied has none yet.
RepliesInOrder ==
    /\ conn.served <= Len(conn.frames)
    /\ conn.frames = SubSeq(conn.sent, 1, Len(conn.frames))
    /\ Len(conn.written) = IF handlers[Observed].pc = "notify" THEN conn.served - 1
                           ELSE conn.served
    /\ \A k \in 1..Len(conn.written) : ReplyFits(conn.frames[k], conn.written[k])

\* A step of read_frame: bytes are read, or a frame or the end is returned.
Reads ==
    \/ conn'.pc # conn.pc
    \/ conn'.buffer # conn.buffer
    \/ conn'.frames # conn.frames

\* C23: on one connection in normal mode, with GET, SET, DEL, PING, PUBLISH and
\* unknown commands pipelined, the replies written are in the order of the requests,
\* one frame each; and the Handler takes no step of read_frame, and applies no
\* request, unless every request read before has its reply written and flushed.
PipelinedReplies ==
    /\ []RepliesInOrder
    /\ [][Reads => Len(conn.written) = Len(conn.frames)]_vars
    /\ [][conn'.served > conn.served => Len(conn.written) = conn.served]_vars

\* C23 witness: two requests arrived in one read, a SET with a deadline and a GET;
\* the first left the second in the buffer, and both replies are written, in order.
PipelinedRepliesWitness ==
    /\ conn.multi
    /\ Len(conn.sent) = 2
    /\ FromFrame[conn.sent[1]].val.type = "Set"
    /\ FromFrame[conn.sent[2]].val.type = "Get"
    /\ conn.written = <<Simple("OK"), Bulk("b")>>
    /\ conn.pc = "closed"

\* The Handler of connection j ends in this step.
Ends(j) == handlers[j].pc \notin {"idle", "done"} /\ handlers'[j].pc = "done"

\* The Store but for the receiver counts of its broadcasters.
StoreContents(s) ==
    [entries |-> s.entries, expirations |-> s.expirations, next_id |-> s.next_id,
     shutdown |-> s.shutdown,
     pub_sub |-> [c \in Channels |->
                    IF s.pub_sub[c] = None THEN None
                    ELSE Some([pos |-> s.pub_sub[c][1].pos, buf |-> s.pub_sub[c][1].buf])]]

\* C24: a step in which a Handler ends with an error (a frame that is no request,
\* UNSUBSCRIBE in normal mode, a failed write) changes no other Handler (mode,
\* subscriptions, acknowledgments still to write), leaves Listener::run where it is
\* with one permit more, leaves the server running, and changes nothing in the Store
\* but the receiver counts of the channels the ended Handler was subscribed to;
\* replies and messages of the observed connection are as before.
ErrorIsolation ==
    [][\A j \in Conns : Ends(j) =>
          /\ \A i \in Conns \ {j} : handlers'[i] = handlers[i]
          /\ listener'.pc = listener.pc
          /\ listener'.limit_conn = listener.limit_conn + 1
          /\ server' = server
          /\ StoreContents(store') = StoreContents(store)
          /\ \A c \in Channels :
                store.pub_sub[c] # None =>
                    store'.pub_sub[c][1].rx_cnt =
                        store.pub_sub[c][1].rx_cnt
                          - Cardinality({n \in 1..Len(handlers[j].subscriptions) :
                                            handlers[j].subscriptions[n].name = c})
          /\ j # Observed => /\ last' = last /\ msgs' = msgs
                             /\ owed' = owed /\ acked' = acked]_vars

\* C24 witness: the second connection has failed while it was subscribed; the
\* observed connection is still in its subscribe loop with an acknowledgment to
\* write, the Store still holds the key, and a third connection has been accepted.
ErrorIsolationWitness ==
    /\ handlers[Failing].pc = "done"
    /\ handlers[Observed].pc = "subscribe"
    /\ handlers[Observed].channels # <<>>
    /\ Subscribed(handlers[Observed].subscriptions) = {"a"}
    /\ "k1" \in DOMAIN store.entries
    /\ store.pub_sub["a"] # None /\ store.pub_sub["a"][1].rx_cnt = 1
    /\ store.pub_sub["b"] # None /\ store.pub_sub["b"][1].rx_cnt = 0
    /\ handlers["c3"].pc = "run"

\* A field that is a string, and one that next_int reads a number from.
IsString(field) == field.type \in {"Simple", "Bulk"}

IsNumber(field) == field.type = "Integer" \/ (IsString(field) /\ Atoi(field.val) # None)

\* The fields after the name are those of the command: GET and DEL have a key,
\* PING at most a message, PUBLISH a channel and a message, SET a key and a value,
\* alone or followed by EX or PX and a number, SUBSCRIBE one channel or more.
FieldsFit(name, fields) ==
    CASE name \in {"get", "del"} -> Len(fields) = 1 /\ IsString(fields[1])
      [] name = "ping" -> fields = <<>> \/ (Len(fields) = 1 /\ IsString(fields[1]))
      [] name = "publish" ->
            Len(fields) = 2 /\ IsString(fields[1]) /\ IsString(fields[2])
      [] name = "set" ->
            /\ Len(fields) \in {2, 4}
            /\ IsString(fields[1]) /\ IsString(fields[2])
            /\ Len(fields) = 4 =>
                  /\ IsString(fields[3])
                  /\ Str(ToUppercase(fields[3].val)) \in {"EX", "PX"}
                  /\ IsNumber(fields[4])
      [] name = "subscribe" ->
            fields # <<>> /\ \A n \in 1..Len(fields) : IsString(fields[n])
      [] OTHER -> FALSE

\* A request that cannot be executed in normal mode.
Rejected(frame) ==
    \/ frame.type # "Array"
    \/ frame = Array(<<>>)
    \/ /\ NamedRequest(frame)
       /\ FirstName(frame) \in RecognizedNames
       /\ ~FieldsFit(FirstName(frame), Tail(frame.val))

\* C25: when the Handler in normal mode goes on to a frame that is no Array, an
\* empty Array, a recognized command whose fields do not fit (one missing, one of
\* the wrong type, one too many, a SET option other than EX and PX, EX or PX
\* without a number) or UNSUBSCRIBE, it writes nothing, the Handler ends, and the
\* Store is as before.
RejectedRequests ==
    [][(/\ conn'.served > conn.served
        /\ Rejected(conn.frames[conn.served + 1]))
       => /\ conn'.written = conn.written
          /\ handlers[Observed].pc = "run"
          /\ handlers'[Observed].pc = "done"
          /\ store' = store]_vars

\* C25 witness: of SET a b, SET a b EX and GET a, read in one piece, the first was
\* answered OK and the second has ended the Handler: nothing more is written, the
\* GET stays in the buffer, and the Store holds a.
RejectedRequestsWitness ==
    /\ conn.sent = <<Cmd(<<<<"S", "e", "t">>, <<"a">>, <<"b">>>>),
                     Cmd(<<<<"S", "e", "t">>, <<"a">>, <<"b">>, <<"E", "X">>>>),
                     Cmd(<<<<"G", "E", "T">>, <<"a">>>>)>>
    /\ conn.served = 2
    /\ conn.written = <<Simple("OK")>>
    /\ conn.buffer # <<>>
    /\ handlers[Observed].pc = "done"
    /\ StoreGet(store, "a") = Some("b")

\* The elements of expirations that are mapped to key.
ElementsOf(s, key) == {e \in s.expirations : e.key = key}

\* C26: in every state that SET, DEL and the expirer's purge reach, an entry with
\* a deadline t has exactly one element of expirations mapped to its key, the one
\* at (t, entry.id), an entry without deadline has none, every element of
\* expirations is that of an entry with its id and its deadline, and no two
\* entries have the same id.
ExpirationIndex ==
    /\ \A key \in DOMAIN store.entries :
           LET entry == store.entries[key]
           IN  ElementsOf(store, key) =
                   IF entry.expires_at = None THEN {}
                   ELSE {[when |-> entry.expires_at[1], id |-> entry.id, key |-> key]}
    /\ \A e \in store.expirations :
           /\ e.key \in DOMAIN store.entries
           /\ store.entries[e.key].id = e.id
           /\ store.entries[e.key].expires_at = Some(e.when)
    /\ \A j, k \in DOMAIN store.entries :
           j # k => store.entries[j].id # store.entries[k].id

\* C26 witness: two entries with the same deadline, each with its own element of
\* expirations.
ExpirationIndexWitness ==
    /\ DOMAIN store.entries = {"k1", "k2"}
    /\ store.entries["k1"].expires_at # None
    /\ store.entries["k1"].expires_at = store.entries["k2"].expires_at
    /\ Cardinality(store.expirations) = 2

\* A message is sent on the broadcaster of channel c in this step.
Sends(c) ==
    /\ store.pub_sub[c] # None
    /\ store'.pub_sub[c] # None
    /\ store'.pub_sub[c][1].pos > store.pub_sub[c][1].pos

\* C27: Db::publish has released the Store mutex before it sends: in a step that
\* sends a message on a broadcaster nobody holds the guard, before or after it.
PublishSendsUnlocked ==
    [][(\E c \in Channels : Sends(c)) => (mutex = None /\ mutex' = None)]_vars

\* C27 witness: the message of a PUBLISH is in the broadcaster's buffer, counted
\* for one receiver, and the publishing Handler still holds the guard, so that
\* another connection's request waits for it.
PublishSendsLocked ==
    /\ mutex # None
    /\ mutex[1].sent = Some(1)
    /\ handlers[mutex[1].holder].pc = "publish"
    /\ store.pub_sub[mutex[1].key][1].buf # <<>>
    /\ \E i \in MutexConns \ {mutex[1].holder} : AtRun(i)

\* The frames that Command::apply writes for the requests of a list: one each, and
\* one for each channel of a SUBSCRIBE.
RECURSIVE FramesOwed(_)
FramesOwed(frames) ==
    IF frames = <<>> THEN 0
    ELSE (IF FromFrame[Head(frames)].val.type = "Subscribe"
          THEN Len(FromFrame[Head(frames)].val.channels) ELSE 1)
         + FramesOwed(Tail(frames))

\* The SET requests of a list.
SetsOf(frames) == {k \in 1..Len(frames) : FromFrame[frames[k]].val.type = "Set"}

\* Every frame that read_frame returned was applied and answered in full.
Answered ==
    /\ conn.served = Len(conn.frames)
    /\ Len(conn.written) = FramesOwed(conn.frames)
    /\ store.next_id = Cardinality(SetsOf(conn.frames))
    /\ \A k \in 1..Len(conn.written) :
           k <= Len(conn.frames) /\ FromFrame[conn.frames[k]].val.type # "Subscribe"
               => ReplyFits(conn.frames[k], conn.written[k])

\* A whole request is left in the Connection's buffer.
RequestBuffered ==
    /\ parse_frame(conn.buffer).ok
    /\ parse_frame(conn.buffer).val.frame # None

\* C28 as amended: when the Handler has returned, at shutdown or at the peer's
\* close, every frame that read_frame returned to it has had its command applied
\* and every reply frame written, wherever the Handler was when the signal came;
\* and the Handler returns at shutdown only out of a select.
ShutdownFinishesRequest ==
    /\ [](handlers[Observed].pc = "done" => Answered)
    /\ [][(Ends(Observed) /\ server # "running" /\ conn.pc # "closed")
            => ~Handling]_vars

\* C28 as stated: when the Handler has returned, no request that was read from
\* the socket is without its reply: none is left in the buffer.
ShutdownAnswersAllRead ==
    handlers[Observed].pc = "done" => (Answered /\ ~RequestBuffered)

\* C28 witness: the signal came while the Handler was handling SET a b PX 1, read
\* together with a GET; the SET was applied and answered OK, and the Handler
\* returned with the GET left in the buffer.
ShutdownFinishesRequestWitness ==
    /\ conn.signalled = "request"
    /\ Len(conn.sent) = 2
    /\ handlers[Observed].pc = "done"
    /\ conn.frames = <<conn.sent[1]>>
    /\ FromFrame[conn.sent[1]].val.type = "Set"
    /\ conn.written = <<Simple("OK")>>
    /\ StoreGet(store, "a") = Some("b")
    /\ RequestBuffered

\* The operations of normal mode that the claim names.
NormalOps == {"get", "set", "del", "ping", "publish"}

\* C29: from the step that applies SUBSCRIBE on, the Handler is in Subscribe::apply
\* until it ends: no step takes it back to normal mode, whether or not it is
\* still subscribed to a channel; none of its requests is handled as GET, SET,
\* DEL, PING or PUBLISH, the entries and the expiration index stay as they are and
\* nothing is published; and it ends without a request (the peer has closed, or
\* shutdown) or with a frame that is no request, which closes the connection.
SubscriberModeStays ==
    [][Obs.pc = "subscribe"
        => /\ handlers'[Observed].pc \in {"subscribe", "done"}
           /\ last'.op \notin NormalOps
           /\ store'.entries = store.entries
           /\ store'.expirations = store.expirations
           /\ published' = published
           /\ handlers'[Observed].pc = "done" => (last' = last \/ last'.op = "invalid")]_vars

\* C29 witness: the observed connection set a key in normal mode, subscribed and
\* has unsubscribed from every channel; its GET of that key, sent with no
\* subscription left, was answered with the error of an unknown command.
SubscriberModeStaysWitness ==
    /\ AtSelect(Observed)
    /\ handlers[Observed].subscriptions = <<>>
    /\ acked["a"] = "unsub"
    /\ StoreGet(store, "a") = Some("b")
    /\ last.frame = Some(Cmd(<<<<"G", "E", "T">>, <<"a">>>>))
    /\ last.reply = <<Error("err unknown command 'get'")>>

\* The keys whose entry is removed or replaced in this step.
EntriesChanged ==
    {k \in DOMAIN store.entries :
        k \notin DOMAIN store'.entries \/ store'.entries[k] # store.entries[k]}

\* C30: the reply of a GET is Bulk with the stored value when entries holds the
\* key and Null when it does not, whatever the key's deadline and the clock, and
\* the GET leaves the Store as it is; an entry is removed or replaced only in a
\* step of the expirer's purge, of a SET (which takes a new id) or of a DEL of
\* that key.
GetIgnoresDeadline ==
    /\ [][(ObservedBegins /\ last'.op = "get")
            => /\ store' = store
               /\ last'.reply =
                     <<IF last'.key \in DOMAIN store.entries
                       THEN Bulk(store.entries[last'.key].data) ELSE Null>>]_vars
    /\ [][\A k \in EntriesChanged :
             \/ ExpirerPurges
             \/ store'.next_id > store.next_id
             \/ store' = StoreDel(store, k).store]_vars

\* C30 witness: the deadline of k1 has passed, the expirer has not purged it, and
\* the GET of k1 was answered Bulk with its value.
GetIgnoresDeadlineWitness ==
    /\ last.op = "get"
    /\ last.key = "k1"
    /\ "k1" \in DOMAIN store.entries
    /\ store.entries["k1"].expires_at # None
    /\ store.entries["k1"].expires_at[1] < now
    /\ last.reply = <<Bulk(store.entries["k1"].data)>>

\* C31: a SET notifies exactly when it has an expiry and the expiration index, as
\* it is before the SET touches it, is empty or has no deadline as early as the new
\* one; a SET without expiry does not notify. Db::set signals the expirer exactly
\* then, in a step of its own after the step that held the mutex: the step of
\* Store::set leaves the notification as it is, a Handler that has to notify
\* does, and nothing else in these runs sets the notification.
SetNotifiesExpirer ==
    /\ [][(ObservedBegins /\ last'.op = "set" /\ store'.next_id > store.next_id)
            => /\ (handlers'[Observed].pc = "notify")
                     <=> (/\ last'.deadline # None
                          /\ \A e \in store.expirations : last'.deadline[1] < e.when)
               /\ last'.deadline = None => handlers'[Observed].pc = "run"
               /\ background_task' = background_task]_vars
    /\ [][\A i \in KvConns :
             (handlers[i].pc = "notify" /\ handlers'[i] # handlers[i])
                => (background_task' /\ handlers'[i].pc = "run" /\ store' = store)]_vars
    /\ [][(~background_task /\ background_task')
            => \E i \in KvConns : handlers[i].pc = "notify" /\ handlers'[i].pc = "run"]_vars

\* C31 witness: the key's own deadline was the only one in the index; the SET
\* that replaced it with an equal deadline did not notify, was answered OK at
\* once, and the expirer sleeps with no notification pending.
SetNotifiesExpirerWitness ==
    /\ prev.op = "set"
    /\ prev.ttl
    /\ last.op = "set"
    /\ last.key = prev.key
    /\ last.deadline # None
    /\ last.reply = <<Simple("OK")>>
    /\ handlers[Observed].pc = "run"
    /\ Cardinality(store.expirations) = 1
    /\ store.next_id = 2
    /\ ~background_task
    /\ purge_task.pc = "sleep"

\* The expirer is blocked: in its select with sleep_until, or in notified().await.
ExpirerBlocked == purge_task.pc \in {"sleep", "wait"}

\* A notification is pending: the Notify holds a permit, or a Db::set or the
\* guard's drop has released the mutex and is about to call notify_one.
NotificationPending ==
    \/ background_task
    \/ \E i \in Conns : handlers[i].pc = "notify"
    \/ server = "dropping"

\* C32: whenever the expirer is blocked and no notification is pending, it sleeps
\* until an instant that is not later than any deadline in the expiration index,
\* or it waits for a notification and the index is empty or shutdown is set.
NoLostWakeup ==
    (ExpirerBlocked /\ ~NotificationPending)
        => \/ /\ purge_task.pc = "sleep"
              /\ \A e \in store.expirations : purge_task.when <= e.when
           \/ /\ purge_task.pc = "wait"
              /\ store.expirations = {} \/ store.shutdown

\* C32 witness: two SETs with deadlines were made and their notifications are
\* used up; the expirer sleeps until the deadline that both keys have in the index.
NoLostWakeupWitness ==
    /\ purge_task.pc = "sleep"
    /\ ~NotificationPending
    /\ Cardinality(store.expirations) = 2
    /\ \A e \in store.expirations : e.when = purge_task.when
    /\ now < purge_task.when

\* C33: once the drop of the DbDropGuard has set the shutdown flag it stays set,
\* the expirer task eventually terminates and stays terminated, wherever it was
\* when the flag was set, and from the moment the flag is set no entry is removed,
\* whatever deadlines have passed.
ExpirerTerminates ==
    /\ [][store.shutdown => store'.shutdown]_vars
    /\ store.shutdown ~> (purge_task.pc = "done")
    /\ [][purge_task.pc = "done" => purge_task'.pc = "done"]_vars
    /\ [][store.shutdown => (/\ store'.entries = store.entries
                             /\ store'.expirations = store.expirations)]_vars

\* C33 witness: the expirer has terminated after the guard's drop, and a key
\* whose deadline has passed is still in the Store.
ExpirerTerminatesWitness ==
    /\ store.shutdown
    /\ server = "returned"
    /\ purge_task.pc = "done"
    /\ \E k \in DOMAIN store.entries :
           /\ store.entries[k].expires_at # None
           /\ store.entries[k].expires_at[1] <= now

\* ------------------------------------------------------ lagging subscriber
\* A slow subscriber: the observed connection and a peer subscribe once, a third
\* connection publishes, and each subscriber forwards at its own pace.
LagConns == {"c1", "c2", "c3"}

NextLag ==
    \/ \E i \in LagConns : Accept(i)
    \/ \E chans \in ChannelLists : HandleSubscribe("c1", chans)
    \/ \E chans \in ShortLists : HandleSubscribe("c2", chans)
    \/ \E i \in {"c1", "c2"} :
          \/ SubscribeNext(i)
          \/ \E n \in 1..Cardinality(Channels) : Forward(i, n)
    \/ Publisher("c3", Messages)

SpecLag == Init /\ [][NextLag]_vars

\* The position that the receiver of connection i on channel c reads next.
Cursor(i, c) ==
    handlers[i].subscriptions[IndexOf(handlers[i].subscriptions, c)].next

\* The observed connection is behind on channel c by more than the broadcaster retains.
Behind(c) ==
    /\ c \in ObsSubscribed
    /\ Cursor(Observed, c) < Oldest(store.pub_sub[c][1])

\* C34: a message forwarded to the observed connection stands for the position
\* of its cursor, or for the oldest retained position when the cursor is behind
\* it, carries the payload published at that position, and moves the cursor just
\* past it; the step leaves the connection in subscriber mode with the same
\* subscriptions and changes neither the Store nor any other Handler; and a
\* PUBLISH on a channel that the observed connection is behind on is applied: the
\* message takes the next position and no receiver or Handler is changed.
LaggingSubscriberStays ==
    /\ [][\A c \in Channels : MessageWritten(c) =>
            LET ch == store.pub_sub[c][1]
                e == msgs'[c][Len(msgs'[c])]
                at == IF Behind(c) THEN Oldest(ch) ELSE Cursor(Observed, c)
            IN  /\ msgs'[c] = Append(msgs[c], e)
                /\ e.pos = at
                /\ e.frame = make_message_frame(c, published[c][at + 1])
                /\ handlers'[Observed].pc = "subscribe"
                /\ Subscribed(handlers'[Observed].subscriptions) = ObsSubscribed
                /\ handlers'[Observed].subscriptions[IndexOf(Obs.subscriptions, c)].next = at + 1
                /\ store' = store
                /\ \A j \in Conns \ {Observed} : handlers'[j] = handlers[j]]_vars
    /\ [][\A c \in Channels : (Behind(c) /\ published'[c] # published[c]) =>
            /\ Observed \in Subscribers(c)
            /\ store'.pub_sub[c][1].rx_cnt = store.pub_sub[c][1].rx_cnt
            /\ handlers' = handlers
            /\ store'.pub_sub[c][1].pos = store.pub_sub[c][1].pos + 1
            /\ msgs' = msgs]_vars
    /\ [](\A c \in Channels : \A j, k \in 1..Len(msgs[c]) :
              j < k => msgs[c][j].pos < msgs[c][k].pos)

\* C34 witness: the observed connection, behind on a channel, was sent the oldest
\* retained message and not the ones before it, is still subscribed and up to
\* date, and its peer was sent nothing yet and can still read from position 0
\* on, where it lags in its turn.
LaggingSubscriberStaysWitness ==
    \E c \in Channels :
        /\ Len(msgs[c]) = 1
        /\ msgs[c][1].pos > 0
        /\ c \in ObsSubscribed
        /\ Cursor(Observed, c) = store.pub_sub[c][1].pos
        /\ c \in Subscribed(handlers["c2"].subscriptions)
        /\ Cursor("c2", c) = 0

\* ------------------------------------------------------ per-channel order
\* The subscribers of the slow-subscriber specification.
LagSubscribers == {"c1", "c2"}

\* Connection i is subscribed to channel c.
IsSubscribed(i, c) == c \in Subscribed(handlers[i].subscriptions)

\* C35: published[c] lists the messages of channel c in the order in which the
\* publishes took the Store mutex. Whenever the receiver of a subscriber on c
\* moves, it moves forward: either to just past the position whose message the
\* Handler was handed, and that message is the one published at that position,
\* or, when a SUBSCRIBE names the channel again and replaces the receiver, past
\* every message published so far with nothing written; a step moves the
\* receiver of one channel only, and the frames written to the observed
\* connection for c carry, in the order written, messages of increasing position
\* in published[c].
PerChannelOrder ==
    /\ [][\A i \in LagSubscribers, c \in Channels :
            (IsSubscribed(i, c) /\ IsSubscribed(i, c)' /\ Cursor(i, c)' # Cursor(i, c)) =>
                LET r == StreamPoll(store.pub_sub[c][1], Cursor(i, c))
                IN  /\ r # None
                    /\ Cursor(i, c)' > Cursor(i, c)
                    /\ published' = published
                    /\ \A d \in Channels \ {c} :
                          IsSubscribed(i, d) => Cursor(i, d)' = Cursor(i, d)
                    /\ \/ /\ handlers'[i].channels = handlers[i].channels
                          /\ Cursor(i, c)' = r[1].pos + 1
                          /\ Cursor(i, c)' <= Len(published[c])
                          /\ r[1].msg = published[c][Cursor(i, c)']
                       \/ /\ handlers'[i].channels # handlers[i].channels
                          /\ Cursor(i, c)' = Len(published[c])
                          /\ msgs' = msgs]_vars
    /\ [](\A c \in Channels : \A j, k \in 1..Len(msgs[c]) :
              j < k => \E p, q \in 1..Len(published[c]) :
                          /\ p < q
                          /\ msgs[c][j].frame = make_message_frame(c, published[c][p])
                          /\ msgs[c][k].frame = make_message_frame(c, published[c][q])
                          /\ msgs[c][j].pos = p - 1
                          /\ msgs[c][k].pos = q - 1)

\* C35 witness: two different messages were published on a channel, the observed
\* connection was sent both, the first one first, its peer has read past both,
\* and on the other channel a message published before is still to be forwarded.
PerChannelOrderWitness ==
    \E c \in Channels : \E d \in Channels \ {c} :
        /\ Len(published[c]) = 2
        /\ published[c][1] # published[c][2]
        /\ Len(msgs[c]) = 2
        /\ msgs[c][1].frame = make_message_frame(c, published[c][1])
        /\ msgs[c][2].frame = make_message_frame(c, published[c][2])
        /\ IsSubscribed("c2", c) /\ Cursor("c2", c) = 2
        /\ IsSubscribed(Observed, d) /\ Cursor(Observed, d) = 0
        /\ Len(published[d]) > 0
        /\ msgs[d] = <<>>

\* ---------------------------------------------------------- end of stream
\* The peer writes some requests, then part of one more or nothing, and closes
\* its sending side; the bytes arrive one at a time or all that is left at once.
EofRequests ==
    {Cmd(<<<<"G", "E", "T">>, <<"a">>>>),
     Cmd(<<<<"S", "e", "t">>, <<"a">>, <<"b">>, <<"P", "X">>, <<"1">>>>),
     Cmd(<<<<"P", "i", "n", "g">>>>)}

EofLists == UNION {[1..n -> EofRequests] : n \in 0..MaxFrames}

\* The proper prefixes of the bytes of a request, the empty one among them.
EofTails ==
    {SubSeq(write_frame(f).val, 1, k) : f \in EofRequests, k \in 0..4}
        \cup {SubSeq(write_frame(f).val, 1, Len(write_frame(f).val) - k) :
                  f \in EofRequests, k \in 1..2}

InitEof ==
    /\ InitServer
    /\ conn \in {ConnectionOf(WriteAll(frames) \o tail, frames) :
                    frames \in EofLists, tail \in EofTails}

NextEof ==
    \/ Accept(Observed)
    \/ RunReadFrame \/ RunReadEof
    \/ (\E n \in {1, Len(conn.socket)} : RunReadBuf(n))
    \/ RunApply \/ RunSetNotify \/ RunClosed \/ RunReadError

SpecEof == InitEof /\ [][NextEof]_vars

\* The Handler of the observed connection has returned.
HandlerEnded == handlers[Observed].pc = "done"

\* C36: the frames that read_frame returns are the first of the requests that the
\* peer wrote in full, and one reply at most is written per request returned;
\* read_frame returns None only with socket and buffer empty and the Disconnect
\* error only with the socket empty and an incomplete frame buffered; and when
\* the Handler has ended, every request written in full was returned and
\* answered, nothing else was answered, and read_frame had returned None if the
\* stream ended with the last request and the Disconnect error if bytes followed it.
EndOfStream ==
    /\ [](/\ Len(conn.frames) <= Len(conn.sent)
          /\ conn.frames = SubSeq(conn.sent, 1, Len(conn.frames))
          /\ Len(conn.written) <= conn.served
          /\ conn.served <= Len(conn.frames))
    /\ [](conn.pc = "closed" => conn.socket = <<>> /\ conn.buffer = <<>>)
    /\ [](conn.pc = "error" =>
              /\ conn.err = "Disconnect"
              /\ conn.socket = <<>>
              /\ conn.buffer # <<>>
              /\ parse_frame(conn.buffer).ok
              /\ parse_frame(conn.buffer).val.frame = None)
    /\ [](HandlerEnded =>
              /\ conn.frames = conn.sent
              /\ conn.served = Len(conn.sent)
              /\ Len(conn.written) = Len(conn.sent)
              /\ conn.pc \in {"closed", "error"}
              /\ conn.pc = "closed" <=> conn.stream = WriteAll(conn.sent)
              /\ conn.pc = "error" <=> conn.stream # WriteAll(conn.sent))

\* C36 witness: the peer wrote a GET and part of a second request and closed; the
\* Handler answered the GET and ended with the Disconnect error.
EndOfStreamWitness ==
    /\ HandlerEnded
    /\ conn.pc = "error"
    /\ conn.err = "Disconnect"
    /\ Len(conn.sent) >= 1
    /\ conn.sent[1] = Cmd(<<<<"G", "E", "T">>, <<"a">>>>)
    /\ Len(conn.written) = Len(conn.sent)
    /\ conn.written[1] = Null
    /\ Len(conn.stream) > Len(WriteAll(conn.sent))

\* ------------------------------------------- messages during a client call
\* The frame that the last round of a call of the Subscriber read is a message frame.
ReadMessageFrame ==
    /\ client.response # None
    /\ NextMessage(client.response[1]).ok

\* C37: a call of Subscriber::subscribe or Subscriber::unsubscribe does not fail on
\* a message frame: when such a call has returned an error, the frame that its
\* last round read is not a message of a subscribed channel.
CallsPassOverMessages ==
    (/\ client.pc = "failed"
     /\ client.call \in {"Subscriber::subscribe", "Subscriber::unsubscribe"})
    => ~ReadMessageFrame

\* C37 witness: the Subscriber of channel a calls subscribe for channel b after a
\* message of a was forwarded; the first round of subscribe_cmd reads the message
\* frame and the call returns CommandExecute, the message is consumed.
SubscribeFailsOnMessage ==
    /\ client.pc = "failed"
    /\ client.call = "Subscriber::subscribe"
    /\ client.subscribed_channels = <<"a">>
    /\ client.channels = <<"b">>
    /\ client.response = Some(make_message_frame("a", "m1"))
    /\ client.result = Some(Err(CommandExecute(Display(make_message_frame("a", "m1")))))
    /\ make_message_frame("a", "m1") \notin {client.inbox[n] : n \in 1..Len(client.inbox)}
    /\ "b" \in ObsSubscribed

\* --------------------------------------------- client and server agreement
\* A call that changes the subscriptions has returned Ok and no other call has
\* been made since.
SubscriptionCallOk ==
    /\ client.pc = "idle"
    /\ client.call \in {"Client::subscribe", "Subscriber::subscribe",
                         "Subscriber::unsubscribe"}
    /\ client.result # None
    /\ client.result[1].ok

\* C39: after a Client::subscribe, Subscriber::subscribe or Subscriber::unsubscribe
\* call that returned Ok, subscribed_channels holds the channels of the StreamMap
\* of the connection's Handler, each of them once.
SubscriptionsAgree ==
    SubscriptionCallOk =>
        /\ {client.subscribed_channels[n] : n \in 1..Len(client.subscribed_channels)}
              = ObsSubscribed
        /\ Len(client.subscribed_channels) = Cardinality(ObsSubscribed)

\* C39 witness: Client::subscribe of the channels a, a has returned Ok; the
\* Subscriber lists a twice and the StreamMap holds a once.
SubscriptionsDiffer ==
    /\ SubscriptionCallOk
    /\ client.call = "Client::subscribe"
    /\ client.subscribed_channels = <<"a", "a">>
    /\ ObsSubscribed = {"a"}
    /\ Len(Obs.subscriptions) = 1
    /\ published = [c \in Channels |-> <<>>]

\* ------------------------------------------------- the Store mutex, all users
\* Every user of the Store mutex: the Handlers of two connections with GET, SET,
\* DEL, SUBSCRIBE and PUBLISH, the expirer with its shutdown check and its purge,
\* and the drop of the guard with its shutdown request. Db::publish is followed
\* from lock() to its return; the other operations are one step each, taken when
\* the guard is free. Waking, notifying, forwarding and the end of a Handler do
\* not take the guard. The clock stands still: the expirer is woken by SET.
LockConns == {"c1", "c2"}

NextLocks ==
    \/ Locked(PurgeCheck) \/ Locked(PurgeRun) \/ PurgeWakeNotified
    \/ ShutdownSignal \/ Locked(GuardDrop) \/ GuardNotify
    \/ \E i \in LockConns : Accept(i) \/ HandlerShutdown(i) \/ SetNotify(i)
    \/ \E i \in LockConns : DbPublishLock(i, "a", "m1")
    \/ \E i \in LockConns : DbPublishSend(i) \/ DbPublishReturn(i)
    \/ \E i \in LockConns : Locked(HandleSubscribe(i, <<"a">>))
    \/ \E i \in LockConns : Locked(HandleSet(i, "k1", "v1", Some(1)))
    \/ \E i \in LockConns : Locked(HandleGet(i, "k1")) \/ Locked(HandleDel(i, "k1"))
    \/ \E i \in LockConns : Forward(i, 1)

\* The thread that holds the guard runs on: nothing in Db::publish waits.
FairSpecLocks ==
    /\ Init
    /\ [][NextLocks]_vars
    /\ WF_vars(\E i \in LockConns : DbPublishSend(i) \/ DbPublishReturn(i))

\* The entries, the index, the identifiers, the shutdown flag and the set of
\* broadcasters: what the Store operations other than a send change.
Guarded(s) ==
    [entries |-> s.entries, expirations |-> s.expirations, next_id |-> s.next_id,
     shutdown |-> s.shutdown, senders |-> {c \in Channels : s.pub_sub[c] # None}]

\* C38: the guard is held only by a Handler inside Db::publish, which is at no
\* await and whose next step, the send or the return, can always be taken; every
\* other operation on the Store, and the expirer's shutdown check, is taken with
\* the guard free and leaves it free; a Handler at an await, the expirer and the
\* server's shutdown never hold it; and a guard that is held is released.
MutexNeverAwaited ==
    /\ [](mutex # None =>
              /\ handlers[mutex[1].holder].pc = "publish"
              /\ \A j \in Conns \ {mutex[1].holder} : handlers[j].pc # "publish"
              /\ ENABLED (DbPublishSend(mutex[1].holder) \/ DbPublishReturn(mutex[1].holder)))
    /\ [](\A i \in Conns : handlers[i].pc = "publish" => mutex # None /\ mutex[1].holder = i)
    /\ [][(\/ Guarded(store)' # Guarded(store)
            \/ (purge_task.pc = "check" /\ purge_task'.pc # "check"))
            => (mutex = None /\ mutex' = None)]_vars
    /\ [][(mutex # None /\ mutex' # None) => mutex'[1].holder = mutex[1].holder]_vars
    /\ (mutex # None) ~> (mutex = None)

\* C38 witness: a Handler holds the guard inside Db::publish with its message
\* sent to the other Handler, which waits in its select, while the expirer is at
\* its shutdown check and the shutdown signal has been sent.
MutexNeverAwaitedWitness ==
    /\ mutex # None
    /\ mutex[1].sent = Some(1)
    /\ \E j \in LockConns \ {mutex[1].holder} : AtSelect(j)
    /\ purge_task.pc = "check"
    /\ server = "shutdown"

\* ------------------------------------------- writes across connections
\* One key written from three connections: the observed connection gets, sets
\* (the value v1) and deletes it, a second connection sets it (the value v2), a
\* third deletes it, and the expirer purges it when its deadline has passed.
VisibleConns == {"c1", "c2", "c3"}
VisibleKey == "k1"
Expiries == {None} \cup {Some(d) : d \in Durations}

NextVisible ==
    \/ Tick \/ Expirer
    \/ \E i \in VisibleConns : Accept(i)
    \/ HandleGet("c1", VisibleKey) \/ HandleDel("c1", VisibleKey)
    \/ \E e \in Expiries : HandleSet("c1", VisibleKey, "v1", e)
    \/ \E e \in Expiries : HandleSet("c2", VisibleKey, "v2", e)
    \/ \E i \in {"c1", "c2"} : SetNotify(i)
    \/ HandleDel("c3", VisibleKey)

SpecVisible == Init /\ [][NextVisible]_vars

\* The reply of a GET of the key on the store s.
GetReply(s) ==
    IF VisibleKey \in DOMAIN s.entries THEN <<Bulk(s.entries[VisibleKey].data)>> ELSE <<Null>>

\* The observed connection's GET is applied in this step.
ObservedGets == ObservedBegins /\ last'.op = "get"

\* Another connection's SET or DEL, or the observed connection's, changes the
\* entries in this step.
WritesEntries == store'.entries # store.entries /\ ~ExpirerPurges

\* C40: a GET of the observed connection is answered from the entries as the
\* latest write left them, whichever connection made it. The GET reads the store
\* of its step, and an entry it reads has an id below next_id and its element in
\* the index if it has a deadline, none otherwise. When another connection wrote
\* the key since the observed connection's last request, the answer is the value
\* of the other connection's SET, or Null after a DEL or a purge, and never the
\* observed connection's own earlier value. A step that changes the entries is
\* a SET that leaves the key with the value of its connection and the next id,
\* or a DEL that leaves the key absent, or a purge of a key whose deadline has
\* passed; after a SET of v1 the observed record is that SET, and a write of
\* another connection marks the observed record.
WritesVisible ==
    /\ [][ObservedGets =>
            /\ last'.reply = GetReply(store)
            /\ store' = store
            /\ VisibleKey \in DOMAIN store.entries =>
                   LET entry == store.entries[VisibleKey]
                   IN  /\ entry.id < store.next_id
                       /\ store.expirations =
                             IF entry.expires_at = None THEN {}
                             ELSE {[when |-> entry.expires_at[1], id |-> entry.id,
                                    key |-> VisibleKey]}
            /\ last = Overwritten => last'.reply \in {<<Bulk("v2")>>, <<Null>>}
            /\ (last = Overwritten /\ VisibleKey \in DOMAIN store.entries)
                   => last'.reply = <<Bulk("v2")>>]_vars
    /\ [][WritesEntries =>
            \/ /\ store'.next_id = store.next_id + 1
               /\ VisibleKey \in DOMAIN store'.entries
               /\ store'.entries[VisibleKey].id = store.next_id
               /\ store'.entries[VisibleKey].data \in {"v1", "v2"}
               /\ store'.entries[VisibleKey].data = "v1" =>
                      last'.op = "set" /\ last'.val = "v1"
               /\ store'.entries[VisibleKey].data = "v2" =>
                      last' \in {Overwritten, NoRequest}
            \/ /\ store'.next_id = store.next_id
               /\ VisibleKey \in DOMAIN store.entries
               /\ VisibleKey \notin DOMAIN store'.entries
               /\ (ObservedBegins /\ last'.op = "del") \/ last' \in {Overwritten, NoRequest}]_vars
    /\ [][(store'.entries # store.entries /\ ExpirerPurges) => PurgesOnlyExpired]_vars

\* C40 witness: after a request of the observed connection for the key, another
\* connection set the key to v2, and the observed connection's next request,
\* a GET, was answered v2; two SETs were applied in all.
WritesVisibleWitness ==
    /\ prev.op = "overwritten"
    /\ last.op = "get"
    /\ last.reply = <<Bulk("v2")>>
    /\ store.next_id = 2

====
